---- MODULE Spec2Model ----
(***************************************************************************)
(* A model of the two numeric engines of the repository:                   *)
(*   src/V.2.0.0/src/utils/forecast.ts           generateSalesForecast     *)
(*   src/V.2.0.0/src/utils/priceOptimization.ts  optimizePrice             *)
(*                                                                         *)
(* JavaScript numbers are modelled as exact rationals extended with the    *)
(* IEEE special values: a number is a pair <<n, d>>; d > 0 is the reduced  *)
(* fraction n/d, <<0,0>> is NaN, <<1,0>> is +Infinity and <<-1,0>> is      *)
(* -Infinity.  Arithmetic is exact (the rounding error of binary floating  *)
(* point and the sign of zero are not modelled); a square root is never    *)
(* approximated: every Math.round of an expression holding one is decided  *)
(* exactly by comparing squares.                                           *)
(***************************************************************************)
EXTENDS Integers, Sequences, FiniteSets, TLC

----------------------------------------------------------------------------
(* Numbers *)

Abs(i) == IF i < 0 THEN -i ELSE i

Sgn(i) == IF i < 0 THEN -1 ELSE IF i > 0 THEN 1 ELSE 0

RECURSIVE GCD(_, _)
GCD(a, b) == IF b = 0 THEN a ELSE GCD(b, a % b)

\* the reduced fraction n/d, d # 0
Norm(n, d) ==
  LET g == GCD(Abs(n), Abs(d))
      s == IF d < 0 THEN -1 ELSE 1
  IN  <<(s * n) \div g, (s * d) \div g>>

NaN == <<0, 0>>

PosInf == <<1, 0>>

NegInf == <<-1, 0>>

Num(i) == <<i, 1>>

IsNaN(a) == a = NaN

IsFinite(a) == a[2] > 0

IsInt(a) == a[2] = 1

\* a + b
Add(a, b) ==
  IF IsNaN(a) \/ IsNaN(b) THEN NaN
  ELSE IF ~IsFinite(a) THEN (IF ~IsFinite(b) /\ a # b THEN NaN ELSE a)
  ELSE IF ~IsFinite(b) THEN b
  ELSE IF a[2] = b[2] THEN Norm(a[1] + b[1], a[2])
  ELSE LET g == GCD(a[2], b[2])
       IN  Norm(a[1] * (b[2] \div g) + b[1] * (a[2] \div g), (a[2] \div g) * b[2])

Neg(a) == <<-a[1], a[2]>>

Sub(a, b) == Add(a, Neg(b))

\* a * b
Mul(a, b) ==
  IF IsNaN(a) \/ IsNaN(b) THEN NaN
  ELSE IF ~IsFinite(a) \/ ~IsFinite(b)
       THEN (IF a[1] = 0 \/ b[1] = 0 THEN NaN ELSE <<Sgn(a[1]) * Sgn(b[1]), 0>>)
  ELSE LET g1 == GCD(Abs(a[1]), b[2])
           g2 == GCD(Abs(b[1]), a[2])
       IN  <<(a[1] \div g1) * (b[1] \div g2), (a[2] \div g2) * (b[2] \div g1)>>

\* a / b; a zero divisor is +0
Div(a, b) ==
  IF IsNaN(a) \/ IsNaN(b) THEN NaN
  ELSE IF ~IsFinite(a) THEN (IF ~IsFinite(b) THEN NaN
                             ELSE <<a[1] * (IF b[1] < 0 THEN -1 ELSE 1), 0>>)
  ELSE IF ~IsFinite(b) THEN Num(0)
  ELSE IF b[1] = 0 THEN <<Sgn(a[1]), 0>>
  ELSE Mul(a, IF b[1] < 0 THEN <<-b[2], -b[1]>> ELSE <<b[2], b[1]>>)

\* an overflow-free comparison of the non-negative fractions p1/q1 and p2/q2:
\* -1, 0 or 1 as the first is less than, equal to or greater than the second
RECURSIVE CmpFrac(_, _, _, _)
CmpFrac(p1, q1, p2, q2) ==
  LET i1 == p1 \div q1
      i2 == p2 \div q2
      r1 == p1 % q1
      r2 == p2 % q2
  IN  IF i1 # i2 THEN (IF i1 < i2 THEN -1 ELSE 1)
      ELSE IF r1 = 0 \/ r2 = 0 THEN (IF r1 = r2 THEN 0 ELSE IF r1 = 0 THEN -1 ELSE 1)
      ELSE CmpFrac(q2, r2, q1, r1)

\* a < b for finite a and b, without overflow
LtFin(a, b) ==
  IF a[1] < 0 /\ b[1] >= 0 THEN TRUE
  ELSE IF a[1] >= 0 /\ b[1] < 0 THEN FALSE
  ELSE IF a[1] >= 0 THEN CmpFrac(a[1], a[2], b[1], b[2]) = -1
  ELSE CmpFrac(-b[1], b[2], -a[1], a[2]) = -1

\* a < b; false when either is NaN
Lt(a, b) ==
  IF IsNaN(a) \/ IsNaN(b) THEN FALSE
  ELSE IF ~IsFinite(a) THEN a[1] < 0 /\ b # a
  ELSE IF ~IsFinite(b) THEN b[1] > 0
  ELSE LtFin(a, b)

Gt(a, b) == Lt(b, a)

\* a <= b; false when either is NaN
Le(a, b) == ~IsNaN(a) /\ ~IsNaN(b) /\ ~Lt(b, a)

Ge(a, b) == Le(b, a)

\* Math.max(a, b), Math.min(a, b): NaN when either is NaN
MathMax(a, b) == IF IsNaN(a) \/ IsNaN(b) THEN NaN ELSE IF Lt(a, b) THEN b ELSE a

MathMin(a, b) == IF IsNaN(a) \/ IsNaN(b) THEN NaN ELSE IF Lt(b, a) THEN b ELSE a

\* Math.abs
MathAbs(a) == <<Abs(a[1]), a[2]>>

\* Math.floor
MathFloor(a) == IF IsFinite(a) THEN Num(a[1] \div a[2]) ELSE a

\* Math.round: the nearest integer, a tie going up
MathRound(a) == IF IsFinite(a) THEN Num((2 * a[1] + a[2]) \div (2 * a[2])) ELSE a

\* a * a
Sq(a) == Mul(a, a)

\* the sum of a sequence of numbers, added left to right from init
\* (Array.reduce); a sum that is NaN stays NaN
RECURSIVE SumFrom(_, _, _, _)
SumFrom(s, k, n, acc) ==
  IF k > n \/ IsNaN(acc) THEN acc ELSE SumFrom(s, k + 1, n, Add(acc, s[k]))

Sum(s) == SumFrom(s, 1, Len(s), Num(0))

\* the largest integer whose square is at most n, for 0 <= n < hi * hi, hi <= 46341
RECURSIVE ISqrtIn(_, _, _)
ISqrtIn(n, lo, hi) ==
  IF hi - lo <= 1 THEN lo
  ELSE LET mid == (lo + hi) \div 2
       IN  IF mid * mid <= n THEN ISqrtIn(n, mid, hi) ELSE ISqrtIn(n, lo, mid)

ISqrt(n) == ISqrtIn(n, 0, 46341)

----------------------------------------------------------------------------
(* Natural numbers of any size, for the comparisons of squares: a sequence *)
(* of digits to the base 10000, the least significant first, without a     *)
(* leading zero digit (zero is the empty sequence)                         *)

BigBase == 100 * 100

RECURSIVE ToBig(_)
ToBig(n) == IF n = 0 THEN <<>> ELSE <<n % BigBase>> \o ToBig(n \div BigBase)

RECURSIVE BigTrim(_)
BigTrim(u) == IF u # <<>> /\ u[Len(u)] = 0 THEN BigTrim(SubSeq(u, 1, Len(u) - 1)) ELSE u

RECURSIVE BigAddC(_, _, _)
BigAddC(u, v, carry) ==
  IF u = <<>> /\ v = <<>> THEN (IF carry = 0 THEN <<>> ELSE <<carry>>)
  ELSE LET d == (IF u = <<>> THEN 0 ELSE u[1]) + (IF v = <<>> THEN 0 ELSE v[1]) + carry
       IN  <<d % BigBase>> \o BigAddC(IF u = <<>> THEN u ELSE Tail(u),
                                      IF v = <<>> THEN v ELSE Tail(v), d \div BigBase)

BigAdd(u, v) == BigAddC(u, v, 0)

\* u - v for u >= v
RECURSIVE BigSubB(_, _, _)
BigSubB(u, v, borrow) ==
  IF u = <<>> THEN <<>>
  ELSE LET d == u[1] - (IF v = <<>> THEN 0 ELSE v[1]) - borrow
       IN  <<d % BigBase>> \o BigSubB(Tail(u), IF v = <<>> THEN v ELSE Tail(v),
                                      IF d < 0 THEN 1 ELSE 0)

BigSub(u, v) == BigTrim(BigSubB(u, v, 0))

RECURSIVE BigMulDigit(_, _, _)
BigMulDigit(u, digit, carry) ==
  IF u = <<>> THEN (IF carry = 0 THEN <<>> ELSE <<carry>>)
  ELSE LET d == u[1] * digit + carry
       IN  <<d % BigBase>> \o BigMulDigit(Tail(u), digit, d \div BigBase)

RECURSIVE BigMul(_, _)
BigMul(u, v) ==
  IF u = <<>> \/ v = <<>> THEN <<>>
  ELSE BigTrim(BigAdd(BigMulDigit(v, u[1], 0), <<0>> \o BigMul(Tail(u), v)))

\* u <= v
RECURSIVE BigLeFrom(_, _, _)
BigLeFrom(u, v, k) ==
  IF k = 0 THEN TRUE
  ELSE IF u[k] # v[k] THEN u[k] < v[k]
  ELSE BigLeFrom(u, v, k - 1)

BigLe(u, v) == IF Len(u) # Len(v) THEN Len(u) < Len(v) ELSE BigLeFrom(u, v, Len(u))

\* the product of three, and of four, natural numbers
Big3(a, b, c) == BigMul(BigMul(ToBig(a), ToBig(b)), ToBig(c))

Big4(a, b, c, d) == BigMul(Big3(a, b, c), ToBig(d))

\* t <= sqrt(e) for finite t and finite e >= 0, decided on the squares
LeSqrt(t, e) == t[1] <= 0 \/ BigLe(Big3(t[1], t[1], e[2]), Big3(e[1], t[2], t[2]))

\* sqrt(e) <= t for finite t and finite e >= 0
SqrtLe(e, t) == t[1] >= 0 /\ BigLe(Big3(e[1], t[2], t[2]), Big3(t[1], t[1], e[2]))

----------------------------------------------------------------------------
(* Values of the form a + c * sqrt(r), the results of Math.sqrt: a surd is *)
(* the record [a, c, r] of three numbers, r >= 0                           *)

Surd(a, c, r) == [a |-> a, c |-> c, r |-> r]

SurdIsNaN(s) == IsNaN(s.a) \/ IsNaN(s.c) \/ IsNaN(s.r)

SurdIsFinite(s) == IsFinite(s.a) /\ IsFinite(s.c) /\ IsFinite(s.r)

\* s * f for a number f
SurdScale(s, f) == Surd(Mul(s.a, f), Mul(s.c, f), s.r)

\* floor(a * 10^digits) for 0 <= a < 1, a = rem / den, by long division
RECURSIVE FloorScaled(_, _, _, _)
FloorScaled(rem, den, digits, acc) ==
  IF digits = 0 THEN acc
  ELSE FloorScaled((10 * rem) % den, den, digits - 1, 10 * acc + ((10 * rem) \div den))

\* floor(sqrt(a) * 10000) for 0 <= a <= 1
SqrtScaled(a) == IF a[1] >= a[2] THEN 10000 ELSE ISqrtIn(FloorScaled(a[1], a[2], 8, 0), 0, 10001)

\* floor(sqrt(r) * 100) for a finite r >= 0 where 32 bits suffice to find it,
\* and -1 elsewhere
SqrtHundredths(r) ==
  IF r[1] \div r[2] < 200000 /\ r[2] < 200000000
  THEN ISqrtIn((r[1] \div r[2]) * 10000 + FloorScaled(r[1] % r[2], r[2], 4, 0), 0, 46340)
  ELSE -1

\* a - c * sqrt(r) > 0 for a > 0, c > 0, r > 0: by the bounds h / 100 and
\* (h + 1) / 100 of the root where they decide, and else exactly
PositiveWith(a, c, r, h) ==
  IF h >= 0 /\ ~Gt(a, Mul(c, Norm(h, 100))) THEN FALSE
  ELSE IF h >= 0 /\ Ge(a, Mul(c, Norm(h + 1, 100))) THEN TRUE
  ELSE ~LeSqrt(Div(a, c), r)

\* s > 0, for a finite surd
SurdPositive(s) ==
  IF s.c[1] = 0 \/ s.r[1] = 0 THEN s.a[1] > 0
  ELSE IF s.c[1] > 0 THEN s.a[1] >= 0 \/ ~SqrtLe(s.r, Div(Neg(s.a), s.c))
  ELSE s.a[1] > 0 /\ PositiveWith(s.a, MathAbs(s.c), s.r, SqrtHundredths(s.r))

\* Math.max(0, s)
SurdMaxZero(s) ==
  IF ~SurdIsFinite(s) THEN Surd(NaN, NaN, NaN)
  ELSE IF SurdPositive(s) THEN s
  ELSE Surd(Num(0), Num(0), Num(0))

\* the largest integer k <= from with k - 1/2 <= a + c * sqrt(r), c > 0
RECURSIVE RoundUpFrom(_, _, _, _)
RoundUpFrom(k, a, c, r) ==
  IF LeSqrt(Div(Sub(Sub(Num(k), <<1, 2>>), a), c), r) THEN k
  ELSE RoundUpFrom(k - 1, a, c, r)

\* the largest integer k <= from with k - 1/2 <= a - c * sqrt(r), c > 0
RECURSIVE RoundDownFrom(_, _, _, _)
RoundDownFrom(k, a, c, r) ==
  IF SqrtLe(r, Div(Add(Sub(a, Num(k)), <<1, 2>>), c)) THEN k
  ELSE RoundDownFrom(k - 1, a, c, r)

\* Math.round(a + c * sqrt(r)), given the roundings of a + c * lo and
\* a + c * hi for two bounds lo <= sqrt(r) < hi of the root: the result lies
\* between the two, and is found by comparing squares where they differ
RoundBetween(s, atLo, atHi) ==
  IF atLo = atHi THEN Num(atLo)
  ELSE IF s.c[1] > 0 THEN Num(RoundUpFrom(atHi, s.a, s.c, s.r))
  ELSE Num(RoundDownFrom(atLo, s.a, MathAbs(s.c), s.r))

\* the bounds of the root are h / 100 and (h + 1) / 100 where h is known,
\* and else m and m + 1 for m = ISqrt(floor(r))
RoundWith(s, h, m) ==
  IF h >= 0
  THEN RoundBetween(s, MathRound(Add(s.a, Mul(s.c, Norm(h, 100))))[1],
                    MathRound(Add(s.a, Mul(s.c, Norm(h + 1, 100))))[1])
  ELSE RoundBetween(s, MathRound(Add(s.a, Mul(s.c, Num(m))))[1],
                    MathRound(Add(s.a, Mul(s.c, Num(m + 1))))[1])

\* Math.round(s).  An infinite part arises only beside a NaN one (both from
\* a zero Sxx).
MathRoundSurd(s) ==
  IF ~SurdIsFinite(s) THEN NaN
  ELSE IF s.c[1] = 0 \/ s.r[1] = 0 THEN MathRound(s.a)
  ELSE RoundWith(s, SqrtHundredths(s.r), ISqrt(s.r[1] \div s.r[2]))

\* sqrt(a) + sqrt(b) >= q for 0 <= a, b <= 1 and q > 0: decided by the bounds
\* of the two roots to four decimals where they suffice, and else exactly:
\* with u = q^2 - a - b, u <= 0 or u^2 <= 4 * a * b, the fractions cleared
SumSqrtGe(a, b, q) ==
  LET la == SqrtScaled(a)
      lb == SqrtScaled(b)
      qs == Mul(q, Num(10000))
      q2 == Big3(q[1], q[1], 1)
      d2 == Big3(q[2], q[2], 1)
      dab == Big3(a[2], b[2], 1)
      pos == BigMul(q2, dab)
      neg == BigMul(d2, BigAdd(Big3(a[1], b[2], 1), Big3(b[1], a[2], 1)))
      u == BigSub(pos, neg)
  IN  IF ~LtFin(Num(la + lb), qs) THEN TRUE
      ELSE IF ~LtFin(qs, Num(la + lb + 2)) THEN FALSE
      ELSE BigLe(pos, neg)
           \/ BigLe(BigMul(u, u),
                    BigMul(BigMul(BigMul(Big3(4, a[1], b[1]), dab), d2), d2))

----------------------------------------------------------------------------
(* Calendar: a date is a whole number of days since 2025-01-01 (the local  *)
(* time zone is UTC and every timestamp is a midnight), in years that are  *)
(* not leap years (2025 to 2027).                                          *)

\* Date.getDay (0 is Sunday): day 0, 2025-01-01, is a Wednesday
getDay(date) == (date + 3) % 7

\* the number of days of the year before month m (0-based); 12 gives the year
CumDays == <<0, 31, 59, 90, 120, 151, 181, 212, 243, 273, 304, 334, 365>>

\* date-fns getMonth: 0 is January
getMonth(date) ==
  CHOOSE m \in 0..11 : CumDays[m + 1] <= date % 365 /\ date % 365 < CumDays[m + 2]

----------------------------------------------------------------------------
(* forecast.ts *)

Ranges == {"7d", "14d", "1month", "3months", "6months", "other"}

\* a week for a range that is not recognised, instead of a month
getDaysForRangeOrWeek(r) ==
  CASE r = "7d" -> 7
    [] r = "14d" -> 14
    [] r = "1month" -> 30
    [] r = "3months" -> 90
    [] r = "6months" -> 180
    [] OTHER -> 7

getDaysForRange(r) ==
  CASE r = "7d" -> 7
    [] r = "14d" -> 14
    [] r = "1month" -> 30
    [] r = "3months" -> 90
    [] r = "6months" -> 180
    [] OTHER -> 30

\* Array.prototype.sort((a, b) => a - b) on finite numbers: a stable insertion
RECURSIVE InsertNum(_, _, _)
InsertNum(s, v, k) ==
  IF k > 0 /\ LtFin(v, s[k]) THEN InsertNum(s, v, k - 1)
  ELSE SubSeq(s, 1, k) \o <<v>> \o SubSeq(s, k + 1, Len(s))

RECURSIVE SortNumFrom(_, _, _)
SortNumFrom(data, k, acc) ==
  IF k > Len(data) THEN acc
  ELSE SortNumFrom(data, k + 1, InsertNum(acc, data[k], Len(acc)))

SortNum(data) == SortNumFrom(data, 1, <<>>)

\* [...historicalData].sort by timestamp ascending; the sort is stable
RECURSIVE InsertRow(_, _, _)
InsertRow(s, row, k) ==
  IF k > 0 /\ row.timestamp < s[k].timestamp THEN InsertRow(s, row, k - 1)
  ELSE SubSeq(s, 1, k) \o <<row>> \o SubSeq(s, k + 1, Len(s))

RECURSIVE SortRowsFrom(_, _, _)
SortRowsFrom(data, k, acc) ==
  IF k > Len(data) THEN acc
  ELSE SortRowsFrom(data, k + 1, InsertRow(acc, data[k], Len(acc)))

\* the records left in the order in which they are passed
KeptInOrder(data) == data

SortByTimestamp(data) == SortRowsFrom(data, 1, <<>>)

MaxInt(a, b) == IF a > b THEN a ELSE b

MinInt(a, b) == IF a < b THEN a ELSE b

\* the values outside the bounds removed instead of repaired
RemoveOutliers(data, lowerBound, upperBound) ==
  SelectSeq(data, LAMBDA v : Ge(v, lowerBound) /\ Le(v, upperBound))

\* the window of the repair one index shorter: [index - 3, index + 3)
ReplaceOutliersShortWindow(data, lowerBound, upperBound) ==
  LET InBounds(v) == Ge(v, lowerBound) /\ Le(v, upperBound)
      Replacement(index) ==
        LET window == SelectSeq(SubSeq(data, MaxInt(1, index - 3),
                                       MinInt(Len(data), index + 2)), InBounds)
        IN  IF Len(window) > 0 THEN Div(Sum(window), Num(Len(window)))
            ELSE data[index]
  IN  [index \in 1..Len(data) |->
         IF Lt(data[index], lowerBound) \/ Gt(data[index], upperBound)
         THEN Replacement(index) ELSE data[index]]

\* lines 95-108: the repair, given the bounds (an operator's arguments are
\* evaluated once, a LET definition at each use)
ReplaceOutliers(data, lowerBound, upperBound) ==
  LET InBounds(v) == Ge(v, lowerBound) /\ Le(v, upperBound)
      Replacement(index) ==
        \* the 0-based slice [index - 3, index + 4) around the 1-based index
        LET window == SelectSeq(SubSeq(data, MaxInt(1, index - 3),
                                       MinInt(Len(data), index + 3)), InBounds)
        IN  IF Len(window) > 0 THEN Div(Sum(window), Num(Len(window)))
            ELSE data[index]
  IN  [index \in 1..Len(data) |->
         IF Lt(data[index], lowerBound) \/ Gt(data[index], upperBound)
         THEN Replacement(index) ELSE data[index]]

\* lines 88-92: the quartiles are read off the sorted copy
OutlierBounds(q1, q3) ==
  [lower |-> Sub(q1, Mul(<<3, 2>>, Sub(q3, q1))),
   upper |-> Add(q3, Mul(<<3, 2>>, Sub(q3, q1)))]

QuartileBounds(sorted) ==
  OutlierBounds(sorted[(Len(sorted) \div 4) + 1], sorted[((3 * Len(sorted)) \div 4) + 1])

BoundsOf(bounds, data) == ReplaceOutliers(data, bounds.lower, bounds.upper)

handleOutliers(data) ==
  IF Len(data) < 4 THEN data ELSE BoundsOf(QuartileBounds(SortNum(data)), data)

\* ml-regression's SimpleLinearRegression: the least-squares line, as computed
\* by its regress(); of fewer than two distinct x the slope is 0/0
LineOf(slope, n, xSum, ySum) ==
  [slope |-> slope,
   intercept |-> Sub(Mul(Div(Num(1), n), ySum), Mul(Mul(slope, Div(Num(1), n)), xSum))]

Regress(n, xSum, ySum, xSquared, xY) ==
  LineOf(Div(Sub(Mul(n, xY), Mul(xSum, ySum)), Sub(Mul(n, xSquared), Mul(xSum, xSum))),
         n, xSum, ySum)

SimpleLinearRegression(x, y) ==
  Regress(Num(Len(x)), Sum(x), Sum(y),
          Sum([k \in 1..Len(x) |-> Mul(x[k], x[k])]),
          Sum([k \in 1..Len(x) |-> Mul(x[k], y[k])]))

\* regression.predict(x)
Predict(regression, x) == Add(Mul(regression.slope, x), regression.intercept)

\* the values of data whose date has key b (a day of the week, a month)
RECURSIVE BucketFrom(_, _, _, _, _)
BucketFrom(data, keys, b, k, acc) ==
  IF k > Len(data) THEN acc
  ELSE BucketFrom(data, keys, b, k + 1,
                  IF keys[k] = b THEN Append(acc, data[k]) ELSE acc)

\* lines 132-133: the day of the week and the month of each date
DaysOfWeek(dates) == [k \in 1..Len(dates) |-> getDay(dates[k])]

Months(dates) == [k \in 1..Len(dates) |-> getMonth(dates[k])]

\* the bucket's sum over the overall average
FactorOfSum(bucket, overallAverage) ==
  IF Len(bucket) # 0 THEN Div(Sum(bucket), overallAverage)
  ELSE Num(1)

\* lines 144-146, 159-161: the bucket's average over the overall average
FactorOf(bucket, overallAverage) ==
  IF Len(bucket) # 0 THEN Div(Div(Sum(bucket), Num(Len(bucket))), overallAverage)
  ELSE Num(1)

SeasonalityWith(data, dates, overallAverage) ==
  [daily |-> [b \in 1..7 |-> FactorOf(BucketFrom(data, DaysOfWeek(dates), b - 1, 1, <<>>), overallAverage)],
   weekly |-> [b \in 1..7 |-> FactorOf(BucketFrom(data, DaysOfWeek(dates), b - 1, 1, <<>>), overallAverage)],
   monthly |-> [b \in 1..12 |-> FactorOf(BucketFrom(data, Months(dates), b - 1, 1, <<>>), overallAverage)]]

calculateSeasonality(data, dates) ==
  SeasonalityWith(data, dates, Div(Sum(data), Num(Len(data))))

\* 1.96, the 95% quantile
Z95 == <<49, 25>>

\* lines 201-205
IntervalOf(predicted, predictionErrorSq) ==
  [lower |-> SurdMaxZero(Surd(predicted, Neg(Z95), predictionErrorSq)),
   upper |-> Surd(predicted, Z95, predictionErrorSq)]

\* lines 189-191: the square of stdError
StdErrorSq(regression, x, y) ==
  Div(Sum([k \in 1..Len(y) |-> Sq(Sub(y[k], Predict(regression, x[k])))]), Num(Len(y) - 2))

\* lines 194-195
XSquaredSum(x, xMean) == Sum([k \in 1..Len(x) |-> Sq(Sub(x[k], xMean))])

\* lines 197-199: the square of predictionError
PredictionErrorSq(stdErrorSq, n, forecastX, xMean, xSquaredSum) ==
  Mul(stdErrorSq,
      Add(Add(Num(1), Div(Num(1), Num(n))), Div(Sq(Sub(forecastX, xMean)), xSquaredSum)))

\* lines 187-195: what the interval takes from the fit alone.  The code
\* computes it anew for every forecast point; it does not depend on the
\* point, and the model computes it once for them all.
StatisticsWith(regression, x, y, xMean) ==
  [stdErrorSq |-> StdErrorSq(regression, x, y),
   n |-> Len(y),
   xMean |-> xMean,
   xSquaredSum |-> XSquaredSum(x, xMean)]

FitStatistics(regression, x, y) == StatisticsWith(regression, x, y, Div(Sum(x), Num(Len(x))))

\* lines 197-205, on the statistics of lines 187-195.  The interval is
\* returned as two surds: stdError * sqrt(w) is the square root of (the
\* residual variance * w).
calculateConfidenceIntervals(regression, stats, forecastX) ==
  IntervalOf(Predict(regression, forecastX),
             PredictionErrorSq(stats.stdErrorSq, stats.n, forecastX, stats.xMean,
                               stats.xSquaredSum))

\* the weighted formula without the guard of lines 404-410
ConfidenceOfUnguarded(ssRes, ssTot, n, meanAbsError, meanY) ==
  LET rSquared == MathMax(Num(0), MathMin(Num(1), Sub(Num(1), Div(ssRes, ssTot))))
      errorScore == MathMax(Num(0), Sub(Num(1), Div(meanAbsError, meanY)))
  IN  MathMin(Num(100), MathMax(Num(0),
        MathRound(Add(Add(Mul(Mul(rSquared, Num(100)), <<2, 5>>),
                          Mul(MathMin(Num(1), Div(Num(n), Num(30))), Num(30))),
                      Mul(errorScore, Num(30))))))

\* Nothing in the try block can throw (the arrays are never empty and a
\* division by zero yields NaN or an infinity), so the catch is not modelled.
ConfidenceOf(ssRes, ssTot, n, meanAbsError, meanY) ==
  LET rSquared == MathMax(Num(0), MathMin(Num(1), Sub(Num(1), Div(ssRes, ssTot))))
      baseConfidence == Mul(rSquared, Num(100))
      dataPointsScore == MathMin(Num(1), Div(Num(n), Num(30)))
      errorScore == MathMax(Num(0), Sub(Num(1), Div(meanAbsError, meanY)))
      finalConfidence ==
        MathRound(Add(Add(Mul(baseConfidence, <<2, 5>>), Mul(dataPointsScore, Num(30))),
                      Mul(errorScore, Num(30))))
  IN  IF ssTot = Num(0) THEN Num(50)
      ELSE MathMin(Num(100), MathMax(Num(0), finalConfidence))

ConfidenceWith(regression, x, y, meanY) ==
  ConfidenceOf(Sum([k \in 1..Len(y) |-> Sq(Sub(y[k], Predict(regression, x[k])))]),
               Sum([k \in 1..Len(y) |-> Sq(Sub(y[k], meanY))]),
               Len(x),
               Div(Sum([k \in 1..Len(y) |-> MathAbs(Sub(y[k], Predict(regression, x[k])))]),
                   Num(Len(y))),
               meanY)

calculateConfidence(regression, x, y) ==
  ConfidenceWith(regression, x, y, Div(Sum(y), Num(Len(y))))

\* The square of calculateVariation's result: the variance of the factors
\* (the population standard deviation is its square root).
VariationSqWith(factors, mean) ==
  Div(Sum([k \in 1..Len(factors) |-> Sq(Sub(factors[k], mean))]), Num(Len(factors)))

calculateVariationSq(factors) ==
  VariationSqWith(factors, Div(Sum(factors), Num(Len(factors))))

\* The score 0.8 + min(0.2, (sqrt(s) + sqrt(o)) / 4) is returned as the pair of
\* the squares s and o of the two normalized variations (min(1, sqrt v) is
\* sqrt(min(1, v))), or NaN when either variation is NaN.  Nothing in the try
\* block can throw, so the catch (and its 0.8) is never taken.
ScoreOf(normalizedSalesVarSq, normalizedOrdersVarSq) ==
  [isNaN |-> IsNaN(normalizedSalesVarSq) \/ IsNaN(normalizedOrdersVarSq),
   s |-> normalizedSalesVarSq, o |-> normalizedOrdersVarSq]

calculateSeasonalityStrength(salesSeasonality, ordersSeasonality) ==
  ScoreOf(MathMin(Num(1), calculateVariationSq(salesSeasonality.daily \o salesSeasonality.monthly)),
          MathMin(Num(1), calculateVariationSq(ordersSeasonality.daily \o ordersSeasonality.monthly)))

\* score >= c for a seasonality score that is not NaN and a finite c
ScoreGe(score, c) ==
  Le(c, <<4, 5>>)
  \/ (Le(c, Num(1)) /\ SumSqrtGe(score.s, score.o, Mul(Num(4), Sub(c, <<4, 5>>))))

\* the largest integer k <= from with k - 1/2 <= b * score, b > 0
RECURSIVE RoundScoreFrom(_, _, _)
RoundScoreFrom(k, b, score) ==
  IF ScoreGe(score, Div(Sub(Num(k), <<1, 2>>), b)) THEN k
  ELSE RoundScoreFrom(k - 1, b, score)

\* Math.round(b * score) for a number b >= 0: the score is at most 1
RoundTimesScore(b, score) ==
  IF IsNaN(b) \/ score.isNaN THEN NaN
  ELSE IF ~IsFinite(b) THEN b
  ELSE IF b[1] = 0 THEN Num(0)
  ELSE Num(RoundScoreFrom(MathRound(b)[1], b, score))

calculateDataConsistency(dates) ==
  IF Len(dates) < 2 THEN <<1, 2>>
  ELSE LET gapCount == Cardinality({k \in 2..Len(dates) : dates[k] - dates[k - 1] > 1})
       IN  MathMax(<<1, 2>>, Sub(Num(1), Div(Num(gapCount), Num(Len(dates)))))

----------------------------------------------------------------------------
(* generateSalesForecast as a state machine: the arguments and the clock   *)
(* are drawn by the initial state, each stage of the function is a step.   *)

VARIABLES
  historyGiven,       \* FALSE: historicalData is null or undefined
  historicalData,     \* the argument: a sequence of [timestamp, sales, orders]
  range,              \* the argument: a ForecastRange, or another string
  today,              \* startOfDay(new Date()): the clock, read at the call
  fpc,                \* where the call stands
  sortedData,
  ySales, yOrders,
  salesRegression, ordersRegression,
  salesSeasonality, ordersSeasonality,
  forecast,           \* the points generated so far
  fresult             \* the value returned: [forecastData, confidence]

fvars == <<historyGiven, historicalData, range, today, fpc, sortedData, ySales, yOrders,
           salesRegression, ordersRegression, salesSeasonality, ordersSeasonality,
           forecast, fresult>>

\* The variables of a call of optimizePrice (priceOptimization.ts)
VARIABLES
  currentPrice, cost,   \* the arguments
  salesData,            \* the argument: a sequence of [price, quantity, timestamp]
  goal,
  minDiscount, maxDiscount,
  campaignPeriod,       \* [given, startDate, endDate]; given is FALSE of undefined
  ppc,                  \* where the call stands; "thrown" when it has thrown
  elasticity,
  pricePoints,
  tested,               \* the number of candidates tested
  objectiveValues,      \* the objectiveValue of each candidate tested, in order
  optimalPrice, maxObjectiveValue, optimalDailyQuantity, optimalTotalQuantity,
  regression, rSquared,
  campaignDays, seasonalityFactors, timePressureFactor,
  avgDailyQuantity,
  presult               \* the value returned

pvars == <<currentPrice, cost, salesData, goal, minDiscount, maxDiscount, campaignPeriod,
           ppc, elasticity, pricePoints, tested, objectiveValues, optimalPrice,
           maxObjectiveValue,
           optimalDailyQuantity, optimalTotalQuantity, regression, rSquared,
           campaignDays, seasonalityFactors, timePressureFactor, avgDailyQuantity,
           presult>>

\* the arguments, which no step assigns
pargs == <<currentPrice, cost, salesData, goal, minDiscount, maxDiscount, campaignPeriod>>

\* What an observer of the calls keeps
VARIABLES
  calls,      \* the number of calls made, the one in progress included
  atCall,     \* the arrays passed to the call in progress, as they were passed
  earlier     \* of the first call, once it has returned: arguments, clock, result

cvars == <<calls, atCall, earlier>>

(* The TikTok Shop client (callTikTokApi): the row of platform_connections *)
(* of the user and the calls in flight.                                    *)
VARIABLES
  connection,   \* the row: present, status, tokenValid (expires_at is more
                \* than the 5 minutes of the buffer ahead)
  tcall,        \* of each caller: the position of its call and what it did
  started       \* the number of calls begun

tvars == <<connection, tcall, started>>

(* The Stripe webhook (stripe-webhook/index.ts): the secret configured,   *)
(* the request in progress and the table subscriptions.                    *)
VARIABLES
  webhookSecret,   \* STRIPE_WEBHOOK_SECRET, or "" where it is not configured
  request,         \* the request: method, the stripe-signature header, rawBody
  wpc,             \* the position of the handler
  answered,        \* the status of the response, 0 before it
  retrieved,       \* stripe.subscriptions.retrieve was called for the request
  written,         \* a row of subscriptions was upserted or updated for it
  subscriptions,   \* the table: the status of the row of each subscription
  received         \* the number of requests received

wvars == <<webhookSecret, request, wpc, answered, retrieved, written, subscriptions,
           received>>

(* ecommerce-sync/index.ts: the rows of platform_metrics of one user, one  *)
(* platform and one UTC day, and the requests in progress.                 *)
VARIABLES
  metricsRows,   \* the number of those rows
  sync,          \* of each requester: the position of its request, and
                 \* whether existingMetrics holds a row
  synced         \* the number of requests begun

svars == <<metricsRows, sync, synced>>

\* the variables of the services other than the two utilities
evars == <<tvars, wvars, svars>>

\* the callers whose calls may be in flight together
Callers == {"a", "b"}

NoCall == [pc |-> "idle", thrown |-> "", refreshed |-> FALSE, requested |-> FALSE,
           response |-> "none"]

\* no call of the TikTok client is made
TtIdle ==
  /\ connection = [present |-> FALSE, status |-> "active", tokenValid |-> FALSE]
  /\ tcall = [c \in Callers |-> NoCall]
  /\ started = 0

\* the stripe-signature header of a request that has none
NoSignature == [given |-> FALSE, wellFormed |-> FALSE, t |-> 0, v1 |-> <<>>]

\* a body that is not an event
NoEvent == [json |-> FALSE, type |-> "", subscription |-> FALSE, userId |-> FALSE]

NoRequest == [method |-> "", signature |-> NoSignature, rawBody |-> NoEvent]

\* the webhook receives no request
WhIdle ==
  /\ webhookSecret = ""
  /\ request = NoRequest
  /\ wpc = "idle"
  /\ answered = 0
  /\ retrieved = FALSE
  /\ written = FALSE
  /\ subscriptions = "absent"
  /\ received = 0

\* the requesters whose requests may be in progress together
Requesters == {"a", "b"}

\* ecommerce-sync receives no request
SyIdle ==
  /\ metricsRows = 0
  /\ sync = [r \in Requesters |-> [pc |-> "idle", existingMetrics |-> FALSE]]
  /\ synced = 0

\* the services other than the two utilities are not called
ServicesIdle == TtIdle /\ WhIdle /\ SyIdle

\* the longest history drawn
MaxHist == 7

\* the date of the first observation: 2025-01-21
StartDay == 20

\* the observations a history is made of: pairs of sales and orders
ObsValues == {<<0, 1>>, <<4, 0>>, <<8, 2>>}

\* the days between the last observation and the day of a call made later
AheadDays == 22

\* the position after which a history with a gap skips a day
GapAfter == 4

\* how a history is laid out: on consecutive days in ascending order, or with
\* a gap and in descending order
Layouts == {[gap |-> FALSE, rev |-> FALSE], [gap |-> TRUE, rev |-> TRUE]}

\* the timestamps of a history of n rows: consecutive days, or with one gap
DatesOf(n, gap) == [k \in 1..n |-> StartDay + k - 1 + (IF gap /\ k > GapAfter THEN 1 ELSE 0)]

\* the histories drawn: every sequence of at most MaxHist observations, in
\* each layout
Histories ==
  UNION {{[k \in 1..n |->
             LET j == IF lay.rev THEN n + 1 - k ELSE k
             IN  [timestamp |-> DatesOf(n, lay.gap)[j],
                  sales |-> obs[j][1], orders |-> obs[j][2]]]
          : obs \in [1..n -> ObsValues], lay \in Layouts}
         : n \in 0..MaxHist}

\* the day of the call: the day of the last observation of a history given
\* in descending order, and AheadDays days later of another
CallDay(last, descending) == IF descending THEN last ELSE last + AheadDays

LastDay(h) == IF Len(h) = 0 THEN StartDay
              ELSE CHOOSE d \in {h[k].timestamp : k \in 1..Len(h)} :
                     \A k \in 1..Len(h) : h[k].timestamp <= d

NoRegression == [slope |-> NaN, intercept |-> NaN]

NoSeasonality == [daily |-> <<>>, weekly |-> <<>>, monthly |-> <<>>]

NoResult == [forecastData |-> <<>>, confidence |-> NaN]

FcInitWith(ranges) ==
  /\ historyGiven \in BOOLEAN
  /\ historicalData \in (IF historyGiven THEN Histories ELSE {<<>>})
  /\ range \in ranges
  /\ today = CallDay(LastDay(historicalData),
                     Len(historicalData) >= 2
                       /\ historicalData[1].timestamp > historicalData[2].timestamp)
  /\ fpc = "validate"
  /\ sortedData = <<>>
  /\ ySales = <<>>
  /\ yOrders = <<>>
  /\ salesRegression = NoRegression
  /\ ordersRegression = NoRegression
  /\ salesSeasonality = NoSeasonality
  /\ ordersSeasonality = NoSeasonality
  /\ forecast = <<>>
  /\ fresult = NoResult

\* a scale of 10 points for each observation instead of 7
InsufficientConfidenceTens(n) == MinInt(50, n * 10)

\* line 236: the confidence of a history of n < 7 points
InsufficientConfidence(n) == MinInt(50, n * 7)

\* lines 223-238: no history, or fewer than 7 points
FcValidate ==
  /\ fpc = "validate"
  /\ IF ~historyGiven \/ Len(historicalData) = 0
     THEN /\ fresult' = [forecastData |-> <<>>, confidence |-> Num(0)]
          /\ fpc' = "done"
     ELSE IF Len(historicalData) < 7
     THEN /\ fresult' = [forecastData |-> <<>>,
                         confidence |-> Num(InsufficientConfidence(Len(historicalData)))]
          /\ fpc' = "done"
     ELSE /\ fresult' = fresult
          /\ fpc' = "sort"
  /\ UNCHANGED <<historyGiven, historicalData, range, today, sortedData, ySales, yOrders,
                 salesRegression, ordersRegression, salesSeasonality, ordersSeasonality,
                 forecast>>
  /\ UNCHANGED pvars
  /\ UNCHANGED cvars
  /\ UNCHANGED evars

\* lines 246-250
dates == [k \in 1..Len(sortedData) |-> sortedData[k].timestamp]

firstDate == dates[1]

x == [k \in 1..Len(dates) |-> Num(dates[k] - firstDate)]

\* lines 253-254: d.metrics.sales || 0
rawSales == [k \in 1..Len(sortedData) |-> Num(sortedData[k].sales)]

rawOrders == [k \in 1..Len(sortedData) |-> Num(sortedData[k].orders)]

\* the sort applied to the array passed, not to a copy of it
SortedInPlace(data) ==
  [array |-> SortByTimestamp(data), sorted |-> SortByTimestamp(data)]

\* lines 241-243: Array.prototype.sort sorts its array in place and returns
\* it; the array it is given here is the copy made by [...historicalData],
\* and the array passed stays as it is
SortedCopy(data) ==
  [array |-> data, sorted |-> SortByTimestamp(data)]

\* lines 241-263: sort by date; all sales or all orders zero
FcSortNormalize ==
  /\ fpc = "sort"
  /\ \E copied \in {SortedCopy(historicalData)} :
       /\ historicalData' = copied.array
       /\ sortedData' = copied.sorted
  /\ IF (\A k \in 1..Len(historicalData) : historicalData[k].sales = 0)
        \/ (\A k \in 1..Len(historicalData) : historicalData[k].orders = 0)
     THEN /\ fresult' = [forecastData |-> <<>>, confidence |-> Num(0)]
          /\ fpc' = "done"
     ELSE /\ fresult' = fresult
          /\ fpc' = "clean"
  /\ UNCHANGED <<historyGiven, range, today, ySales, yOrders,
                 salesRegression, ordersRegression, salesSeasonality, ordersSeasonality,
                 forecast>>
  /\ UNCHANGED pvars
  /\ UNCHANGED cvars
  /\ UNCHANGED evars

\* lines 265-266
FcClean ==
  /\ fpc = "clean"
  /\ ySales' = handleOutliers(rawSales)
  /\ yOrders' = handleOutliers(rawOrders)
  /\ fpc' = "fit"
  /\ UNCHANGED <<historyGiven, historicalData, range, today, sortedData,
                 salesRegression, ordersRegression, salesSeasonality, ordersSeasonality,
                 forecast, fresult>>
  /\ UNCHANGED pvars
  /\ UNCHANGED cvars
  /\ UNCHANGED evars

\* lines 269-270
FcFit ==
  /\ fpc = "fit"
  /\ salesRegression' = SimpleLinearRegression(x, ySales)
  /\ ordersRegression' = SimpleLinearRegression(x, yOrders)
  /\ fpc' = "seasonality"
  /\ UNCHANGED <<historyGiven, historicalData, range, today, sortedData, ySales, yOrders,
                 salesSeasonality, ordersSeasonality, forecast, fresult>>
  /\ UNCHANGED pvars
  /\ UNCHANGED cvars
  /\ UNCHANGED evars

\* the array of an earlier call used again instead of a new one
forecastOfEarlierCall == forecast

\* line 279: const forecast = []
newForecast == <<>>

\* lines 273-279
FcSeasonality ==
  /\ fpc = "seasonality"
  /\ salesSeasonality' = calculateSeasonality(ySales, dates)
  /\ ordersSeasonality' = calculateSeasonality(yOrders, dates)
  /\ forecast' = newForecast
  /\ fpc' = "generate"
  /\ UNCHANGED <<historyGiven, historicalData, range, today, sortedData, ySales, yOrders,
                 salesRegression, ordersRegression, fresult>>
  /\ UNCHANGED pvars
  /\ UNCHANGED cvars
  /\ UNCHANGED evars

daysToForecast == getDaysForRange(range)

\* lines 310-338: the point, given the two intervals and seasonal factors
PointOf(forecastDate, predictedSales, predictedOrders, salesIntervals, ordersIntervals, salesSeasonalFactor, ordersSeasonalFactor) ==
  [timestamp |-> forecastDate,
   sales |-> MathMax(Num(0), MathRound(Mul(predictedSales, salesSeasonalFactor))),
   orders |-> MathMax(Num(0), MathRound(Mul(predictedOrders, ordersSeasonalFactor))),
   salesLower |-> MathMax(Num(0), MathRoundSurd(SurdScale(salesIntervals.lower, salesSeasonalFactor))),
   salesUpper |-> MathRoundSurd(SurdScale(salesIntervals.upper, salesSeasonalFactor)),
   ordersLower |-> MathMax(Num(0), MathRoundSurd(SurdScale(ordersIntervals.lower, ordersSeasonalFactor))),
   ordersUpper |-> MathRoundSurd(SurdScale(ordersIntervals.upper, ordersSeasonalFactor)),
   isForecast |-> TRUE]

\* lines 282-308: the point of the day forecastDate, daysSinceStart days after
\* the first observation
PointAt(forecastDate, daysSinceStart, salesStats, ordersStats) ==
  PointOf(forecastDate,
          Predict(salesRegression, daysSinceStart),
          Predict(ordersRegression, daysSinceStart),
          calculateConfidenceIntervals(salesRegression, salesStats, daysSinceStart),
          calculateConfidenceIntervals(ordersRegression, ordersStats, daysSinceStart),
          Mul(salesSeasonality.daily[getDay(forecastDate) + 1],
              salesSeasonality.monthly[getMonth(forecastDate) + 1]),
          Mul(ordersSeasonality.daily[getDay(forecastDate) + 1],
              ordersSeasonality.monthly[getMonth(forecastDate) + 1]))

\* lines 281-339: the points of the days today + k .. today + daysToForecast
\* - 1, pushed in that order onto those of acc
PointsFrom(k, first, salesStats, ordersStats, acc) ==
  acc \o [j \in 1..(daysToForecast - k) |->
            PointAt(today + k + j - 1, Num(today + k + j - 1 - first),
                    salesStats, ordersStats)]

\* lines 277-339: the whole loop
FcGenerate ==
  /\ fpc = "generate"
  /\ forecast' = PointsFrom(0, firstDate, FitStatistics(salesRegression, x, ySales),
                            FitStatistics(ordersRegression, x, yOrders), forecast)
  /\ fpc' = "score"
  /\ UNCHANGED <<historyGiven, historicalData, range, today, sortedData, ySales, yOrders,
                 salesRegression, ordersRegression, salesSeasonality, ordersSeasonality,
                 fresult>>
  /\ UNCHANGED pvars
  /\ UNCHANGED cvars
  /\ UNCHANGED evars

\* lines 356-361
AverageOf(salesConfidence, ordersConfidence, dataQualityScore, seasonalityScore, consistencyScore) ==
  RoundTimesScore(Mul(Mul(Div(Add(salesConfidence, ordersConfidence), Num(2)),
                          dataQualityScore), consistencyScore),
                  seasonalityScore)

\* lines 342-353
AverageWith(xs) ==
  AverageOf(calculateConfidence(salesRegression, xs, ySales),
            calculateConfidence(ordersRegression, xs, yOrders),
            MathMin(Num(1), Div(Num(Len(historicalData)), Num(60))),
            calculateSeasonalityStrength(salesSeasonality, ordersSeasonality),
            calculateDataConsistency(dates))

averageConfidence == AverageWith(x)

\* lines 341-366: score and return
FcScore ==
  /\ fpc = "score"
  /\ fresult' = [forecastData |-> forecast,
                 confidence |-> MathMin(Num(100), MathMax(Num(0), averageConfidence))]
  /\ fpc' = "done"
  /\ UNCHANGED <<historyGiven, historicalData, range, today, sortedData, ySales, yOrders,
                 salesRegression, ordersRegression, salesSeasonality, ordersSeasonality,
                 forecast>>
  /\ UNCHANGED pvars
  /\ UNCHANGED cvars
  /\ UNCHANGED evars

FcNext == FcValidate \/ FcSortNormalize \/ FcClean \/ FcFit \/ FcSeasonality
          \/ FcGenerate \/ FcScore

----------------------------------------------------------------------------
(* priceOptimization.ts                                                    *)

\* lines 35-40
interpretElasticity(value) ==
  IF Lt(value, <<1, 2>>)
  THEN "Inelastic - Demand is not very sensitive to price changes"
  ELSE IF Lt(value, Num(1))
  THEN "Moderately elastic - Demand shows some response to price changes"
  ELSE IF Lt(value, Num(2))
  THEN "Elastic - Demand is sensitive to price changes"
  ELSE "Highly elastic - Demand is very sensitive to price changes"

\* line 46: [...salesData].sort((a, b) => a.price - b.price); the sort is stable
RECURSIVE InsertByPrice(_, _, _)
InsertByPrice(s, row, k) ==
  IF k > 0 /\ LtFin(row.price, s[k].price) THEN InsertByPrice(s, row, k - 1)
  ELSE SubSeq(s, 1, k) \o <<row>> \o SubSeq(s, k + 1, Len(s))

RECURSIVE SortByPriceFrom(_, _, _)
SortByPriceFrom(data, k, acc) ==
  IF k > Len(data) THEN acc
  ELSE SortByPriceFrom(data, k + 1, InsertByPrice(acc, data[k], Len(acc)))

SortByPrice(data) == SortByPriceFrom(data, 1, <<>>)

\* salesData.filter(d => d.price === p).map(d => d.quantity)
QuantitiesAt(data, p) == SelectSeq(data, LAMBDA d : d.price = p)

\* lines 51-54: the average quantity sold at the price p
AverageQuantityAt(data, p) ==
  Div(Sum([k \in 1..Len(QuantitiesAt(data, p)) |-> QuantitiesAt(data, p)[k].quantity]),
      Num(Len(QuantitiesAt(data, p))))

\* lines 57-60
ElasticityBetween(p1, p2, q1, q2) ==
  MathAbs(Div(Div(Sub(q2, q1), q1), Div(Sub(p2, p1), p1)))

\* lines 46-60
ElasticityOfSorted(data, sortedByPrice) ==
  ElasticityBetween(sortedByPrice[1].price, sortedByPrice[Len(sortedByPrice)].price,
                    AverageQuantityAt(data, sortedByPrice[1].price),
                    AverageQuantityAt(data, sortedByPrice[Len(sortedByPrice)].price))

\* line 46: the array sorted is the copy made by [...salesData], and the
\* array passed stays as it is
SortedByPriceCopy(data) ==
  [array |-> data, sorted |-> SortByPrice(data)]

\* lines 42-61
calculatePriceElasticity(data) ==
  IF Len(data) < 2 THEN Num(-1)
  ELSE ElasticityOfSorted(data, SortedByPriceCopy(data).sorted)

\* Saturday taken for an ordinary day
calculateSeasonalityFactorFridayOnly(date) ==
  IF getDay(date) = 0 THEN <<11, 10>>
  ELSE IF getDay(date) = 5 THEN <<13, 10>>
  ELSE <<9, 10>>

\* lines 63-70: date.getDay() of a day of the campaign
calculateSeasonalityFactor(date) ==
  IF getDay(date) = 0 THEN <<11, 10>>
  ELSE IF getDay(date) = 5 \/ getDay(date) = 6 THEN <<13, 10>>
  ELSE <<9, 10>>

\* lines 72-93
calculateTimePressureFactor(days) ==
  IF days <= 7 THEN <<3, 2>>
  ELSE IF days >= 30 THEN Num(1)
  ELSE Sub(<<3, 2>>, Div(Mul(Sub(<<3, 2>>, Num(1)), Num(days - 7)), Num(30 - 7)))

\* Number(v.toFixed(2)): to the nearest hundredth, a tie away from zero
ToFixed2(v) ==
  IF ~IsFinite(v) THEN v
  ELSE Norm(Sgn(v[1]) * MathFloor(Add(Mul(MathAbs(v), Num(100)), <<1, 2>>))[1], 100)

\* line 104
PoElasticity ==
  /\ ppc = "elasticity"
  /\ elasticity' = calculatePriceElasticity(salesData)
  /\ salesData' = IF Len(salesData) < 2 THEN salesData
                  ELSE SortedByPriceCopy(salesData).array
  /\ ppc' = "pricePoints"
  /\ UNCHANGED <<currentPrice, cost, goal, minDiscount, maxDiscount, campaignPeriod, tested, objectiveValues, pricePoints, optimalPrice, maxObjectiveValue, optimalDailyQuantity,
                 optimalTotalQuantity, regression, rSquared, campaignDays,
                 seasonalityFactors, timePressureFactor, avgDailyQuantity, presult>>
  /\ UNCHANGED fvars
  /\ UNCHANGED cvars
  /\ UNCHANGED evars

\* line 107
minPrice == Mul(currentPrice, Sub(Num(1), Div(maxDiscount, Num(100))))

\* line 108
maxPrice == Mul(currentPrice, Sub(Num(1), Div(minDiscount, Num(100))))

\* the range cut in 50 steps instead of 49
pricePointAtFiftieth(lowest, highest, i) ==
  MathRound(Add(lowest, Div(Mul(Num(i), Sub(highest, lowest)), Num(50))))

\* line 112: the candidate of index i, from 0
pricePointAt(lowest, highest, i) ==
  MathRound(Add(lowest, Div(Mul(Num(i), Sub(highest, lowest)), Num(49))))

\* the search starting from the lowest price instead of the current one
initialOptimalPriceLowest == minPrice

\* line 115: the price returned unless a candidate is taken
initialOptimalPrice == currentPrice

\* lines 106-118
PoPricePoints ==
  /\ ppc = "pricePoints"
  /\ pricePoints' = [k \in 1..50 |-> pricePointAt(minPrice, maxPrice, k - 1)]
  /\ optimalPrice' = initialOptimalPrice
  /\ maxObjectiveValue' = Num(0)
  /\ optimalDailyQuantity' = Num(0)
  /\ optimalTotalQuantity' = Num(0)
  /\ ppc' = "regression"
  /\ UNCHANGED <<pargs, tested, objectiveValues, elasticity, regression, rSquared, campaignDays,
                 seasonalityFactors, timePressureFactor, avgDailyQuantity, presult>>
  /\ UNCHANGED fvars
  /\ UNCHANGED cvars
  /\ UNCHANGED evars

\* lines 121-122
xPrices == [k \in 1..Len(salesData) |-> salesData[k].price]

yQuantities == [k \in 1..Len(salesData) |-> salesData[k].quantity]

\* lines 126-130
RSquaredWith(line, xs, ys, meanY) ==
  Sub(Num(1),
      Div(Sum([k \in 1..Len(ys) |-> Sq(Sub(ys[k], Predict(line, xs[k])))]),
          Sum([k \in 1..Len(ys) |-> Sq(Sub(ys[k], meanY))])))

RSquaredOf(line, xs, ys) == RSquaredWith(line, xs, ys, Div(Sum(ys), Num(Len(ys))))

\* lines 120-130.  Of an empty history, y.reduce((a, b) => a + b) of line 127
\* has no initial value and throws a TypeError.
PoRegression ==
  /\ ppc = "regression"
  /\ IF Len(salesData) = 0
     THEN /\ ppc' = "thrown"
          /\ UNCHANGED <<regression, rSquared>>
     ELSE /\ regression' = SimpleLinearRegression(xPrices, yQuantities)
          /\ rSquared' = RSquaredOf(SimpleLinearRegression(xPrices, yQuantities),
                                    xPrices, yQuantities)
          /\ ppc' = "campaign"
  /\ UNCHANGED <<pargs, tested, objectiveValues, elasticity, pricePoints, optimalPrice, maxObjectiveValue,
                 optimalDailyQuantity, optimalTotalQuantity, campaignDays,
                 seasonalityFactors, timePressureFactor, avgDailyQuantity, presult>>
  /\ UNCHANGED fvars
  /\ UNCHANGED cvars
  /\ UNCHANGED evars

\* line 140: differenceInDays(endDate, startDate) + 1, of two midnights
CampaignDaysOf(period) == period.endDate - period.startDate + 1

\* lines 143-146: Array.from of a length below 1 is empty
SeasonalityFactorsOf(period) ==
  [k \in 1..CampaignDaysOf(period) |-> calculateSeasonalityFactor(period.startDate + (k - 1))]

\* lines 132-153
PoCampaign ==
  /\ ppc = "campaign"
  /\ IF campaignPeriod.given
     THEN /\ campaignDays' = CampaignDaysOf(campaignPeriod)
          /\ seasonalityFactors' = SeasonalityFactorsOf(campaignPeriod)
          /\ timePressureFactor' = calculateTimePressureFactor(CampaignDaysOf(campaignPeriod))
     ELSE /\ campaignDays' = 1
          /\ seasonalityFactors' = <<Num(1)>>
          /\ timePressureFactor' = Num(1)
  /\ avgDailyQuantity' = Div(Sum(yQuantities), Num(Len(yQuantities)))
  /\ ppc' = "test"
  /\ UNCHANGED <<pargs, tested, objectiveValues, elasticity, pricePoints, optimalPrice, maxObjectiveValue,
                 optimalDailyQuantity, optimalTotalQuantity, regression, rSquared, presult>>
  /\ UNCHANGED fvars
  /\ UNCHANGED cvars
  /\ UNCHANGED evars

\* lines 158 and 204
BaseQuantity(price) == MathMax(Num(0), MathRound(Predict(regression, price)))

\* lines 161-163 and 205-207
TotalQuantityOf(baseQuantity) ==
  MathRound(Sum([k \in 1..Len(seasonalityFactors) |-> Mul(baseQuantity, seasonalityFactors[k])]))

\* lines 169-191
ObjectiveValue(price, totalQuantity, dailyQuantity) ==
  IF goal = "profit" THEN Mul(Sub(price, cost), totalQuantity)
  ELSE IF goal = "sales" THEN Mul(price, totalQuantity)
  ELSE IF goal = "inventory"
  THEN Mul(Add(Mul(Mul(Div(dailyQuantity, avgDailyQuantity), <<3, 5>>), timePressureFactor),
               Mul(Div(Sub(price, cost), price), <<2, 5>>)),
           totalQuantity)
  ELSE Num(0)

\* lines 158-163: the total quantity of a candidate
TotalQuantityAt(price) == TotalQuantityOf(BaseQuantity(price))

\* line 165
DailyQuantityOf(totalQuantity) == MathRound(Div(totalQuantity, Num(campaignDays)))

\* the candidate is taken also when its objective value equals the greatest
\* so far
TestPriceOrEqual(price, totalQuantity, dailyQuantity, objectiveValue) ==
  IF Ge(objectiveValue, maxObjectiveValue)
  THEN /\ maxObjectiveValue' = objectiveValue
       /\ optimalPrice' = price
       /\ optimalDailyQuantity' = dailyQuantity
       /\ optimalTotalQuantity' = totalQuantity
  ELSE UNCHANGED <<maxObjectiveValue, optimalPrice, optimalDailyQuantity,
                   optimalTotalQuantity>>

\* lines 193-198: the candidate is taken when its objective value is greater
\* than the greatest so far
TestPrice(price, totalQuantity, dailyQuantity, objectiveValue) ==
  IF Gt(objectiveValue, maxObjectiveValue)
  THEN /\ maxObjectiveValue' = objectiveValue
       /\ optimalPrice' = price
       /\ optimalDailyQuantity' = dailyQuantity
       /\ optimalTotalQuantity' = totalQuantity
  ELSE UNCHANGED <<maxObjectiveValue, optimalPrice, optimalDailyQuantity,
                   optimalTotalQuantity>>

\* lines 156-199: one turn of pricePoints.forEach, on the next candidate
PoTestPrice ==
  /\ ppc = "test"
  /\ tested < Len(pricePoints)
  /\ \E price \in {pricePoints[tested + 1]} :
       \E totalQuantity \in {TotalQuantityAt(price)} :
         \E dailyQuantity \in {DailyQuantityOf(totalQuantity)} :
           \E objectiveValue \in {ObjectiveValue(price, totalQuantity, dailyQuantity)} :
             /\ TestPrice(price, totalQuantity, dailyQuantity, objectiveValue)
             /\ objectiveValues' = Append(objectiveValues, objectiveValue)
  /\ tested' = tested + 1
  /\ ppc' = IF tested + 1 < Len(pricePoints) THEN "test" ELSE "return"
  /\ UNCHANGED <<pargs, elasticity, pricePoints, regression, rSquared, campaignDays,
                 seasonalityFactors, timePressureFactor, avgDailyQuantity, presult>>
  /\ UNCHANGED fvars
  /\ UNCHANGED cvars
  /\ UNCHANGED evars

\* the discount as a share of the optimal price instead of the current one
discountPercentageOfOptimal(current, optimal) ==
  Mul(Div(Sub(current, optimal), optimal), Num(100))

\* line 201
discountPercentage(current, optimal) == Mul(Div(Sub(current, optimal), current), Num(100))

\* lines 210-233, given the total quantity of lines 204-207
OutcomeWith(totalQuantity, dailyRevenue, dailyProfit) ==
  [optimalDiscount |-> MathRound(discountPercentage(currentPrice, optimalPrice)),
   optimalPrice |-> MathRound(optimalPrice),
   originalPrice |-> MathRound(currentPrice),
   expectedRevenue |-> MathRound(Mul(dailyRevenue, Num(campaignDays))),
   expectedProfit |-> MathRound(Mul(dailyProfit, Num(campaignDays))),
   dailyRevenue |-> MathRound(dailyRevenue),
   dailyProfit |-> MathRound(dailyProfit),
   campaignDays |-> campaignDays,
   confidence |-> MathRound(Mul(rSquared, Num(100))),
   expectedQuantity |-> [daily |-> MathRound(optimalDailyQuantity),
                         total |-> MathRound(optimalTotalQuantity)],
   priceElasticity |-> [value |-> ToFixed2(elasticity),
                        interpretation |-> interpretElasticity(elasticity)]]

\* lines 210-211
OutcomeOf(totalQuantity) ==
  OutcomeWith(totalQuantity,
              MathRound(Div(Mul(optimalPrice, totalQuantity), Num(campaignDays))),
              MathRound(Div(Mul(Sub(optimalPrice, cost), totalQuantity), Num(campaignDays))))

\* lines 201-233
PoReturn ==
  /\ ppc = "return"
  /\ presult' = OutcomeOf(TotalQuantityOf(BaseQuantity(optimalPrice)))
  /\ ppc' = "done"
  /\ UNCHANGED <<pargs, tested, objectiveValues, elasticity, pricePoints, optimalPrice, maxObjectiveValue,
                 optimalDailyQuantity, optimalTotalQuantity, regression, rSquared,
                 campaignDays, seasonalityFactors, timePressureFactor, avgDailyQuantity>>
  /\ UNCHANGED fvars
  /\ UNCHANGED cvars
  /\ UNCHANGED evars

PoNext == PoElasticity \/ PoPricePoints \/ PoRegression \/ PoCampaign \/ PoTestPrice
          \/ PoReturn

\* the longest price history drawn
MaxObs == 3

\* the observations a price history is made of: a price and a quantity
Observations == {<<10, 6>>, <<20, 2>>, <<20, 6>>}

\* the date of the first observation of a price history
SalesStart == 5

\* the price histories drawn: every sequence of at most MaxObs observations,
\* on consecutive days
SalesHistories ==
  UNION {{[k \in 1..n |-> [price |-> Num(obs[k][1]), quantity |-> Num(obs[k][2]),
                           timestamp |-> SalesStart + k - 1]]
          : obs \in [1..n -> Observations]}
         : n \in 0..MaxObs}

\* the current prices drawn: a whole one and 12.5
CurrentPrices == {Num(20), <<25, 2>>}

Costs == {5, 30}

Goals == {"profit", "sales", "inventory"}

\* the discount ranges drawn: the defaults of lines 100-101, and a narrower one
DiscountRanges == {<<0, 50>>, <<10, 30>>}

\* the campaign periods drawn: none, Friday 2025-01-03 to Sunday 2025-01-05,
\* the ten days from that Friday, and one that ends the day before it starts
\* (nothing in optimizePrice validates the dates)
CampaignPeriods ==
  {[given |-> FALSE, startDate |-> 0, endDate |-> 0],
   [given |-> TRUE, startDate |-> 2, endDate |-> 4],
   [given |-> TRUE, startDate |-> 2, endDate |-> 11],
   [given |-> TRUE, startDate |-> 4, endDate |-> 3]}

NoLine == [slope |-> NaN, intercept |-> NaN]

NoOutcome == [optimalDiscount |-> NaN]

PoInit ==
  /\ currentPrice \in CurrentPrices
  /\ cost \in {Num(c) : c \in Costs}
  /\ salesData \in SalesHistories
  /\ goal \in Goals
  /\ \E r \in DiscountRanges : minDiscount = Num(r[1]) /\ maxDiscount = Num(r[2])
  /\ campaignPeriod \in CampaignPeriods
  /\ ppc = "elasticity"
  /\ elasticity = NaN
  /\ pricePoints = <<>>
  /\ tested = 0
  /\ objectiveValues = <<>>
  /\ optimalPrice = NaN
  /\ maxObjectiveValue = NaN
  /\ optimalDailyQuantity = NaN
  /\ optimalTotalQuantity = NaN
  /\ regression = NoLine
  /\ rSquared = NaN
  /\ campaignDays = 1
  /\ seasonalityFactors = <<>>
  /\ timePressureFactor = NaN
  /\ avgDailyQuantity = NaN
  /\ presult = NoOutcome

\* generateSalesForecast is not called
FcIdle ==
  /\ historyGiven = FALSE
  /\ historicalData = <<>>
  /\ range = "7d"
  /\ today = StartDay
  /\ fpc = "idle"
  /\ sortedData = <<>>
  /\ ySales = <<>>
  /\ yOrders = <<>>
  /\ salesRegression = NoRegression
  /\ ordersRegression = NoRegression
  /\ salesSeasonality = NoSeasonality
  /\ ordersSeasonality = NoSeasonality
  /\ forecast = <<>>
  /\ fresult = NoResult

\* optimizePrice is not called
PoIdle ==
  /\ currentPrice = Num(0)
  /\ cost = Num(0)
  /\ salesData = <<>>
  /\ goal = "profit"
  /\ minDiscount = Num(0)
  /\ maxDiscount = Num(50)
  /\ campaignPeriod = [given |-> FALSE, startDate |-> 0, endDate |-> 0]
  /\ ppc = "idle"
  /\ elasticity = NaN
  /\ pricePoints = <<>>
  /\ tested = 0
  /\ objectiveValues = <<>>
  /\ optimalPrice = NaN
  /\ maxObjectiveValue = NaN
  /\ optimalDailyQuantity = NaN
  /\ optimalTotalQuantity = NaN
  /\ regression = NoLine
  /\ rSquared = NaN
  /\ campaignDays = 1
  /\ seasonalityFactors = <<>>
  /\ timePressureFactor = NaN
  /\ avgDailyQuantity = NaN
  /\ presult = NoOutcome

vars == <<fvars, pvars, cvars, evars>>

NoEarlier == [historicalData |-> <<>>, today |-> 0, result |-> NoResult]

\* the first call is in progress
FirstCall ==
  /\ calls = 1
  /\ atCall = [historicalData |-> historicalData, salesData |-> salesData]
  /\ earlier = NoEarlier

\* a call of generateSalesForecast with the range 7d
ForecastInit == FcInitWith({"7d"}) /\ PoIdle /\ FirstCall /\ ServicesIdle

ForecastSpec == ForecastInit /\ [][FcNext]_vars

\* a call of optimizePrice
PriceInit == PoInit /\ FcIdle /\ FirstCall /\ ServicesIdle

PriceSpec == PriceInit /\ [][PoNext]_vars

\* the same records in reverse order
Reverse(h) == [k \in 1..Len(h) |-> h[Len(h) + 1 - k]]

\* the same records, the first one moved to the end
Rotate(h) == IF Len(h) = 0 THEN h ELSE Append(Tail(h), h[1])

\* the orders in which a caller may pass the records of h again
Reorderings(h) == {h, Reverse(h), Rotate(h)}

\* generateSalesForecast is called again once it has returned, with the same
\* records, in the same order or in another, and the same range; the clock
\* then reads the same day or the next.  The locals of the call that
\* returned are out of reach of the new call, which assigns each of its own
\* before reading it.
FcCallAgain ==
  /\ fpc = "done"
  /\ calls = 1
  /\ calls' = 2
  /\ earlier' = [historicalData |-> historicalData, today |-> today, result |-> fresult]
  /\ historicalData' \in Reorderings(historicalData)
  /\ atCall' = [atCall EXCEPT !.historicalData = historicalData']
  /\ today' \in {today, today + 1}
  /\ fpc' = "validate"
  /\ UNCHANGED <<historyGiven, range, sortedData, ySales, yOrders, salesRegression,
                 ordersRegression, salesSeasonality, ordersSeasonality, forecast, fresult>>
  /\ UNCHANGED pvars
  /\ UNCHANGED evars

\* the histories of the repeated calls: those without a sales value of 0
RepeatedHistories == {h \in Histories : \A k \in 1..Len(h) : h[k].sales # 0}

\* a first call of generateSalesForecast, or a call of optimizePrice for
\* profit with the default discounts and no campaign period
CallsInit ==
  \/ /\ FcInitWith({"7d"})
     /\ historicalData \in RepeatedHistories
     /\ PoIdle
     /\ FirstCall
     /\ ServicesIdle
  \/ /\ PoInit
     /\ goal = "profit"
     /\ minDiscount = Num(0)
     /\ ~campaignPeriod.given
     /\ FcIdle
     /\ FirstCall
     /\ ServicesIdle

\* the histories of the calls of every range: those of the two greatest
\* lengths, without a sales value of 0, passed in ascending order
RangeHistories ==
  {h \in RepeatedHistories :
     /\ Len(h) >= MaxHist - 1
     /\ h[1].timestamp < h[Len(h)].timestamp}

\* a call of generateSalesForecast with each range, the unrecognised included
RangesInit ==
  /\ FcInitWith(Ranges)
  /\ historicalData \in RangeHistories
  /\ PoIdle
  /\ FirstCall
  /\ ServicesIdle

RangesSpec == RangesInit /\ [][FcNext]_vars

\* histories of 10 consecutive days, in ascending order, with the same sales
\* and the same orders on every day
SteadyHistories ==
  {[k \in 1..10 |-> [timestamp |-> first + k - 1, sales |-> v[1], orders |-> v[2]]]
   : first \in {StartDay, StartDay + GapAfter},
     v \in {<<100, 10>>, <<40, 3>>}}

\* a call of generateSalesForecast with each range on a steady history, on
\* the day of its last observation, the day after, or AheadDays days later
SteadyInit ==
  /\ historyGiven = TRUE
  /\ historicalData \in SteadyHistories
  /\ range \in Ranges
  /\ today \in {LastDay(historicalData) + d : d \in {0, 1, AheadDays}}
  /\ fpc = "validate"
  /\ sortedData = <<>>
  /\ ySales = <<>>
  /\ yOrders = <<>>
  /\ salesRegression = NoRegression
  /\ ordersRegression = NoRegression
  /\ salesSeasonality = NoSeasonality
  /\ ordersSeasonality = NoSeasonality
  /\ forecast = <<>>
  /\ fresult = NoResult
  /\ PoIdle
  /\ FirstCall
  /\ ServicesIdle

SteadySpec == SteadyInit /\ [][FcNext]_vars

\* histories two records longer than the longest of Histories, on consecutive
\* days in ascending order, of four records of any values and then one
\* repeated: long enough for an outlying value to have no value within the
\* bounds in its window
LongHistories ==
  {[k \in 1..(MaxHist + 2) |->
      [timestamp |-> StartDay + k - 1,
       sales |-> IF k <= 4 THEN head[k][1] ELSE rest[1],
       orders |-> IF k <= 4 THEN head[k][2] ELSE rest[2]]]
   : head \in [1..4 -> ObsValues], rest \in ObsValues}

\* handleOutliers applied to the sales and to the orders of every history
\* drawn, the empty one and those of one record included: the state at lines
\* 265-266, whatever the length
OutlierInit ==
  /\ historyGiven = TRUE
  /\ historicalData \in Histories \cup LongHistories
  /\ range = "7d"
  /\ today = StartDay
  /\ fpc = "clean"
  /\ sortedData = SortByTimestamp(historicalData)
  /\ ySales = <<>>
  /\ yOrders = <<>>
  /\ salesRegression = NoRegression
  /\ ordersRegression = NoRegression
  /\ salesSeasonality = NoSeasonality
  /\ ordersSeasonality = NoSeasonality
  /\ forecast = <<>>
  /\ fresult = NoResult
  /\ PoIdle
  /\ FirstCall
  /\ ServicesIdle

OutlierSpec == OutlierInit /\ [][FcClean]_vars

CallsNext == FcNext \/ FcCallAgain \/ PoNext

CallsSpec == CallsInit /\ [][CallsNext]_vars

----------------------------------------------------------------------------
(* callTikTokApi (src/unnamed/part_000) as a state machine: a step is the  *)
(* code between one await and the next, and the calls of the callers       *)
(* interleave at the awaits.                                               *)

\* the most calls begun in one behaviour
MaxApiCalls == 3

\* part_009 lines 44-45: the constraint valid_status
ValidStatus == {"active", "inactive", "error"}

\* what TikTok answers: HTTP ok with code 0; HTTP ok with another code; HTTP
\* not ok with a JSON body; HTTP not ok with a body that is not JSON, of
\* which response.json() rejects
Responses == {"ok", "apiError", "httpError", "notJson"}

\* lines 166-169: the call goes on unless the status read is 'error'
StatusAllows(status) == status # "error"

\* an update of the row of the user: no row, nothing updated
UpdateOf(row, status, tokenValid) ==
  IF row.present THEN [present |-> TRUE, status |-> status, tokenValid |-> tokenValid]
  ELSE row

\* the call of the caller c ends by throwing the message
Throw(c, message) == tcall' = [tcall EXCEPT ![c].pc = "thrown", ![c].thrown = message]

\* line 121: callTikTokApi is called
TtCall(c) ==
  /\ tcall[c].pc \in {"idle", "returned", "thrown"}
  /\ started < MaxApiCalls
  /\ started' = started + 1
  /\ tcall' = [tcall EXCEPT ![c] = [NoCall EXCEPT !.pc = "getUser"]]
  /\ UNCHANGED connection
  /\ UNCHANGED <<fvars, pvars, cvars, wvars, svars>>

\* lines 135-140: supabase.auth.getUser() has answered
TtGetUser(c) ==
  /\ tcall[c].pc = "getUser"
  /\ \E user \in BOOLEAN :
       IF user THEN tcall' = [tcall EXCEPT ![c].pc = "select"]
       ELSE Throw(c, "User not authenticated")
  /\ UNCHANGED <<connection, started>>
  /\ UNCHANGED <<fvars, pvars, cvars, wvars, svars>>

\* lines 142-203: the row has been read; the call throws, or starts the
\* refresh of the token, or sends the request to TikTok
TtSelect(c) ==
  /\ tcall[c].pc = "select"
  /\ IF ~connection.present THEN Throw(c, "TikTok Shop not connected")
     ELSE IF ~StatusAllows(connection.status)
     THEN Throw(c, "TikTok connection is in error state")
     ELSE IF ~connection.tokenValid THEN tcall' = [tcall EXCEPT ![c].pc = "refresh"]
     ELSE tcall' = [tcall EXCEPT ![c].pc = "response", ![c].requested = TRUE]
  /\ UNCHANGED <<connection, started>>
  /\ UNCHANGED <<fvars, pvars, cvars, wvars, svars>>

\* lines 48-119, 176, 178-203: refreshToken has asked for new tokens; it has
\* failed, or it has updated the row, with the status 'active', and the
\* request to TikTok is sent
TtRefresh(c) ==
  /\ tcall[c].pc = "refresh"
  /\ \E refreshedOk \in BOOLEAN :
       IF refreshedOk
       THEN /\ connection' = UpdateOf(connection, "active", TRUE)
            /\ tcall' = [tcall EXCEPT ![c].pc = "response", ![c].refreshed = TRUE,
                                      ![c].requested = TRUE]
       ELSE /\ tcall' = [tcall EXCEPT ![c].pc = "thrown", ![c].refreshed = TRUE,
                                      ![c].thrown = "Failed to refresh access token"]
            /\ UNCHANGED connection
  /\ UNCHANGED started
  /\ UNCHANGED <<fvars, pvars, cvars, wvars, svars>>

\* lines 205-211, 236-249: the answer of TikTok has come; response.json()
\* rejects of a body that is not JSON, before the status is looked at
TtResponse(c) ==
  /\ tcall[c].pc = "response"
  /\ \E r \in Responses :
       CASE r = "ok" -> tcall' = [tcall EXCEPT ![c].pc = "returned", ![c].response = r]
         [] r = "notJson" ->
              tcall' = [tcall EXCEPT ![c].pc = "thrown", ![c].response = r,
                                     ![c].thrown = "Failed to call TikTok API"]
         [] OTHER -> tcall' = [tcall EXCEPT ![c].pc = "markError", ![c].response = r]
  /\ UNCHANGED <<connection, started>>
  /\ UNCHANGED <<fvars, pvars, cvars, wvars, svars>>

\* lines 211-233: the status of the row has been updated to 'error'
TtMarkError(c) ==
  /\ tcall[c].pc = "markError"
  /\ connection' = UpdateOf(connection, "error", connection.tokenValid)
  /\ Throw(c, "API request failed")
  /\ UNCHANGED started
  /\ UNCHANGED <<fvars, pvars, cvars, wvars, svars>>

\* tiktok-auth lines 122-143: the shop is authorised again, the row is
\* written with the status 'active' and new tokens
TtAuthorize ==
  /\ connection' = [present |-> TRUE, status |-> "active", tokenValid |-> TRUE]
  /\ connection' # connection
  /\ UNCHANGED <<tcall, started>>
  /\ UNCHANGED <<fvars, pvars, cvars, wvars, svars>>

TtCallStep == \E c \in Callers : TtCall(c)

TtGetUserStep == \E c \in Callers : TtGetUser(c)

TtSelectStep == \E c \in Callers : TtSelect(c)

TtRefreshStep == \E c \in Callers : TtRefresh(c)

TtResponseStep == \E c \in Callers : TtResponse(c)

TtMarkErrorStep == \E c \in Callers : TtMarkError(c)

TtNext == TtCallStep \/ TtGetUserStep \/ TtSelectStep \/ TtRefreshStep \/ TtResponseStep
          \/ TtMarkErrorStep \/ TtAuthorize

\* the row of the user, if any, has a status the constraint allows
TtInit ==
  /\ connection \in [present : BOOLEAN, status : ValidStatus, tokenValid : BOOLEAN]
  /\ tcall = [c \in Callers |-> NoCall]
  /\ started = 0

TikTokInit == TtInit /\ FcIdle /\ PoIdle /\ FirstCall /\ WhIdle /\ SyIdle

TikTokSpec == TikTokInit /\ [][TtNext]_vars

----------------------------------------------------------------------------
(* The handler of stripe-webhook/index.ts as a state machine: one request  *)
(* at a time, a step being the code up to the next call of Stripe or of    *)
(* the database.                                                           *)

\* the most requests received in one behaviour
MaxRequests == 2

\* the keys a signature may have been made with: the secret, and another
SigningKeys == {"whsec", "guess"}

\* the timestamps of the signature headers
Timestamps == {1, 2}

\* the bodies sent: one that is not JSON, and events of each kind handled
Events ==
  {NoEvent}
  \cup {[json |-> TRUE, type |-> "checkout.session.completed", subscription |-> sub,
          userId |-> FALSE] : sub \in BOOLEAN}
  \cup {[json |-> TRUE, type |-> "customer.subscription.updated", subscription |-> TRUE,
          userId |-> user] : user \in BOOLEAN}
  \cup {[json |-> TRUE, type |-> type, subscription |-> TRUE, userId |-> FALSE]
         : type \in {"customer.subscription.deleted", "invoice.paid"}}

\* lines 55-56: the payload signed, `${timestampPart}.${rawBody}`
PayloadOf(timestampPart, rawBody) == <<timestampPart, rawBody>>

\* lines 57-68: HMAC-SHA256 of the payload under the key, in hexadecimal; two
\* signatures are equal only if made of the same payload with the same key
Hmac(key, payload) == <<key, payload>>

\* the stripe-signature headers sent: none, one that does not have the two
\* parts t=... and v1=..., and those with a timestamp and a signature made
\* with either key of any payload
SignatureHeaders ==
  {NoSignature, [given |-> TRUE, wellFormed |-> FALSE, t |-> 0, v1 |-> <<>>]}
  \cup {[given |-> TRUE, wellFormed |-> TRUE, t |-> t, v1 |-> Hmac(k, PayloadOf(u, b))]
         : t \in Timestamps, k \in SigningKeys, u \in Timestamps, b \in Events}

Requests ==
  [method : {"POST", "OPTIONS"}, signature : SignatureHeaders, rawBody : Events]

\* every signature is taken for the computed one
SignatureUnchecked(computedSignature, signaturesPart) == TRUE

\* line 70: computedSignature !== signaturesPart throws
SignatureMatches(computedSignature, signaturesPart) == computedSignature = signaturesPart

\* the response is sent
Respond(status) == wpc' = "answered" /\ answered' = status

\* a request arrives
WhReceive ==
  /\ wpc \in {"idle", "answered"}
  /\ received < MaxRequests
  /\ received' = received + 1
  /\ request' \in Requests
  /\ wpc' = "verify"
  /\ answered' = 0
  /\ retrieved' = FALSE
  /\ written' = FALSE
  /\ UNCHANGED <<webhookSecret, subscriptions>>
  /\ UNCHANGED <<fvars, pvars, cvars, tvars, svars>>

\* lines 76-86, 128-136, 164-166, 178-186: the event by its type, up to the
\* call of Stripe or of the database
Dispatch(event) ==
  CASE event.type = "checkout.session.completed" ->
         IF ~event.subscription THEN Respond(200)
         ELSE wpc' = "retrieve" /\ answered' = answered
    [] event.type = "customer.subscription.updated" ->
         IF ~event.userId THEN Respond(400)
         ELSE wpc' = "upsert" /\ answered' = answered
    [] event.type = "customer.subscription.deleted" ->
         wpc' = "update" /\ answered' = answered
    [] OTHER -> Respond(200)

\* lines 27-76, 194-207: the preflight, the header, the secret, the
\* signature, JSON.parse; every throw is answered with the status 400
WhVerify ==
  /\ wpc = "verify"
  /\ IF request.method = "OPTIONS" THEN Respond(200)
     ELSE IF ~request.signature.given THEN Respond(400)
     ELSE IF webhookSecret = "" THEN Respond(400)
     ELSE IF ~request.signature.wellFormed THEN Respond(400)
     ELSE IF ~SignatureMatches(Hmac(webhookSecret,
                                    PayloadOf(request.signature.t, request.rawBody)),
                               request.signature.v1)
     THEN Respond(400)
     ELSE IF ~request.rawBody.json THEN Respond(400)
     ELSE Dispatch(request.rawBody)
  /\ UNCHANGED <<webhookSecret, request, retrieved, written, subscriptions, received>>
  /\ UNCHANGED <<fvars, pvars, cvars, tvars, svars>>

\* lines 87-93: stripe.subscriptions.retrieve fails, or returns a
\* subscription without or with the id of the user
WhRetrieve ==
  /\ wpc = "retrieve"
  /\ retrieved' = TRUE
  /\ \E outcome \in {"fails", "noUser", "user"} :
       IF outcome = "user" THEN wpc' = "upsert" /\ answered' = answered
       ELSE Respond(400)
  /\ UNCHANGED <<webhookSecret, request, written, subscriptions, received>>
  /\ UNCHANGED <<fvars, pvars, cvars, tvars, svars>>

\* lines 102-124, 138-160: the upsert of the row of the subscription
WhUpsert ==
  /\ wpc = "upsert"
  /\ \E stored \in BOOLEAN :
       IF stored THEN /\ subscriptions' = "active"
                      /\ written' = TRUE
                      /\ Respond(200)
       ELSE /\ UNCHANGED <<subscriptions, written>>
            /\ Respond(400)
  /\ UNCHANGED <<webhookSecret, request, retrieved, received>>
  /\ UNCHANGED <<fvars, pvars, cvars, tvars, svars>>

\* lines 168-182: the update of the row, if any, to 'canceled'
WhUpdate ==
  /\ wpc = "update"
  /\ \E stored \in BOOLEAN :
       IF stored THEN /\ subscriptions' = IF subscriptions = "absent" THEN "absent"
                                          ELSE "canceled"
                      /\ written' = TRUE
                      /\ Respond(200)
       ELSE /\ UNCHANGED <<subscriptions, written>>
            /\ Respond(400)
  /\ UNCHANGED <<webhookSecret, request, retrieved, received>>
  /\ UNCHANGED <<fvars, pvars, cvars, tvars, svars>>

WhNext == WhReceive \/ WhVerify \/ WhRetrieve \/ WhUpsert \/ WhUpdate

WhInit ==
  /\ webhookSecret \in {"", "whsec"}
  /\ request = NoRequest
  /\ wpc = "idle"
  /\ answered = 0
  /\ retrieved = FALSE
  /\ written = FALSE
  /\ subscriptions \in {"absent", "active", "canceled"}
  /\ received = 0

WebhookInit == WhInit /\ FcIdle /\ PoIdle /\ FirstCall /\ TtIdle /\ SyIdle

WebhookSpec == WebhookInit /\ [][WhNext]_vars

----------------------------------------------------------------------------
(* The handler of ecommerce-sync/index.ts as a state machine: the requests *)
(* are those of one user for one platform on one UTC day; a step is the    *)
(* code up to the next answer of the database, and the requests in         *)
(* progress interleave at those points.                                    *)

\* the most requests begun in one behaviour
MaxSyncs == 3

\* lines 8-69: a request arrives; it is refused (no Authorization header,
\* no user, no platform in the body) or goes on to the lookup
SyBegin(r) ==
  /\ sync[r].pc \in {"idle", "answered"}
  /\ synced < MaxSyncs
  /\ synced' = synced + 1
  /\ \E accepted \in BOOLEAN :
       sync' = [sync EXCEPT ![r] = [pc |-> IF accepted THEN "select" ELSE "answered",
                                    existingMetrics |-> FALSE]]
  /\ UNCHANGED metricsRows
  /\ UNCHANGED <<fvars, pvars, cvars, tvars, wvars>>

\* lines 71-79: the lookup of a row of today.  Only data is read of the
\* answer: maybeSingle gives data null where there is no row, and also where
\* the query fails or finds more than one row (line 78 hands .lt one
\* argument, the value, where it takes a column and a value).
SySelect(r) ==
  /\ sync[r].pc = "select"
  /\ \E queryFails \in BOOLEAN :
       sync' = [sync EXCEPT ![r] = [pc |-> "store",
                                    existingMetrics |-> ~queryFails /\ metricsRows = 1]]
  /\ UNCHANGED <<metricsRows, synced>>
  /\ UNCHANGED <<fvars, pvars, cvars, tvars, wvars>>

\* lines 81-143: the row found is updated, or a row is inserted; the
\* statement may fail
SyStore(r) ==
  /\ sync[r].pc = "store"
  /\ \E stored \in BOOLEAN :
       metricsRows' = IF stored /\ ~sync[r].existingMetrics THEN metricsRows + 1
                      ELSE metricsRows
  /\ sync' = [sync EXCEPT ![r].pc = "answered"]
  /\ UNCHANGED synced
  /\ UNCHANGED <<fvars, pvars, cvars, tvars, wvars>>

SyBeginStep == \E r \in Requesters : SyBegin(r)

SySelectStep == \E r \in Requesters : SySelect(r)

SyStoreStep == \E r \in Requesters : SyStore(r)

SyNext == SyBeginStep \/ SySelectStep \/ SyStoreStep

\* the table holds no row of the day yet, or one
SyInit ==
  /\ metricsRows \in {0, 1}
  /\ sync = [r \in Requesters |-> [pc |-> "idle", existingMetrics |-> FALSE]]
  /\ synced = 0

SyncInit == SyInit /\ FcIdle /\ PoIdle /\ FirstCall /\ TtIdle /\ WhIdle

SyncSpec == SyncInit /\ [][SyNext]_vars

----------------------------------------------------------------------------
(* Properties of generateSalesForecast                                     *)

\* the call has returned
FcReturned == fpc = "done"

AllZeroSales == \A k \in 1..Len(historicalData) : historicalData[k].sales = 0

AllZeroOrders == \A k \in 1..Len(historicalData) : historicalData[k].orders = 0

\* lower <= value <= upper, and both bounds are >= 0 (false of a NaN)
Bracketed(lower, value, upper) ==
  Le(lower, value) /\ Le(value, upper) /\ Ge(lower, Num(0)) /\ Ge(upper, Num(0))

\* C1: every point returned has salesLower <= sales <= salesUpper and
\* ordersLower <= orders <= ordersUpper, with the four bounds >= 0.
\* The code floors the lower bounds at 0 (lines 201-204, 326, 333) but not
\* the upper ones (lines 327, 334): on a falling trend the upper bound of a
\* day is negative while the value is floored to 0.
C1_BoundsBracketValue ==
  FcReturned =>
    \A k \in 1..Len(fresult.forecastData) :
      /\ Bracketed(fresult.forecastData[k].salesLower, fresult.forecastData[k].sales,
                   fresult.forecastData[k].salesUpper)
      /\ Bracketed(fresult.forecastData[k].ordersLower, fresult.forecastData[k].orders,
                   fresult.forecastData[k].ordersUpper)

\* C2: the confidence returned is an integer from 0 to 100, whatever the
\* history.  Where the cleaned series is all zero the overall average is 0,
\* the seasonal factors are 0 / 0, and the NaN reaches the result through
\* Math.round, Math.max and Math.min.
C2_ConfidenceInRange ==
  FcReturned =>
    /\ IsInt(fresult.confidence)
    /\ Le(Num(0), fresult.confidence)
    /\ Le(fresult.confidence, Num(100))

\* C4: a non-empty history whose sales are all zero, or whose orders are all
\* zero, returns no point and confidence 0 whatever its length.  The code
\* tests the length (line 232) before the zeros (line 257): a short all-zero
\* history returns min(50, 7 * n).
C4_ZeroSeriesRejected ==
  (FcReturned /\ historyGiven /\ Len(historicalData) >= 1
     /\ (AllZeroSales \/ AllZeroOrders))
    => fresult = [forecastData |-> <<>>, confidence |-> Num(0)]

\* C5: a history of 1 to 6 points that is not all zero returns no point and
\* confidence min(50, 7 * n); an empty or missing history returns no point
\* and confidence 0.
C5_ShortHistoryGate ==
  FcReturned =>
    /\ (historyGiven /\ Len(historicalData) \in 1..6 /\ ~AllZeroSales /\ ~AllZeroOrders)
         => fresult = [forecastData |-> <<>>,
                       confidence |-> Num(IF 7 * Len(historicalData) < 50
                                          THEN 7 * Len(historicalData) ELSE 50)]
    /\ (~historyGiven \/ Len(historicalData) = 0)
         => fresult = [forecastData |-> <<>>, confidence |-> Num(0)]

\* C5 happens: a history of 6 points, not all zero, has returned 42
C5_Witness ==
  /\ FcReturned /\ historyGiven /\ Len(historicalData) = 6
  /\ ~AllZeroSales /\ ~AllZeroOrders
  /\ fresult.confidence = Num(42)

----------------------------------------------------------------------------
(* Properties of optimizePrice and calculatePriceElasticity                *)

\* the call has returned
PoReturned == ppc = "done"

\* the call has thrown
PoThrown == ppc = "thrown"

\* C3: the confidence returned by optimizePrice is from 0 to 100 for every
\* history of positive prices and non-negative quantities.  Of equal
\* quantities ssRes / ssTot is 0 / 0, of equal prices the slope is 0 / 0:
\* rSquared is NaN and so is Math.round(rSquared * 100).
C3_PriceConfidenceInRange ==
  PoReturned => Le(Num(0), presult.confidence) /\ Le(presult.confidence, Num(100))

\* C6: calculatePriceElasticity returns exactly 1 on a history of one
\* observation, and on an empty one.  Line 43 returns -1.
C6_DefaultElasticityIsOne ==
  (ppc \in {"pricePoints", "regression", "campaign", "test", "return", "done", "thrown"}
     /\ Len(salesData) < 2)
    => elasticity = Num(1)

\* C7: optimizePrice on fewer than 2 observations does not throw, and returns
\* an outcome with the default elasticity of 1.  On an empty history line 127
\* throws; on one observation the elasticity returned is -1.
C7_InsufficientDataNeverRaises ==
  Len(salesData) < 2 =>
    /\ ~PoThrown
    /\ PoReturned => presult.priceElasticity.value = Num(1)

\* what rounding allows beside the discount range: a candidate is a price
\* rounded to a whole unit, which moves the discount by at most 50 /
\* currentPrice points, and the discount is rounded to a whole percent
DiscountTolerance == Add(Div(Num(50), currentPrice), <<1, 2>>)

WithinDiscountRange(discount) ==
  /\ Le(Sub(minDiscount, DiscountTolerance), discount)
  /\ Le(discount, Add(maxDiscount, DiscountTolerance))

\* some candidate attains a positive objective value
SomePositiveObjective ==
  \E k \in 1..Len(objectiveValues) : Gt(objectiveValues[k], Num(0))

\* C8 as stated: the optimalDiscount returned lies within [minDiscount,
\* maxDiscount] up to rounding, for every call.  Where no candidate attains a
\* positive objective value the current price is kept (lines 115-116, 193)
\* and the discount is 0, below a minDiscount > 0.
C8_DiscountWithinRange == PoReturned => WithinDiscountRange(presult.optimalDiscount)

\* C8, amended: the optimalDiscount returned lies within [minDiscount,
\* maxDiscount] up to rounding where some candidate attains a positive
\* objective value, and is 0 elsewhere.
C8_DiscountWithinRangeOrZero ==
  PoReturned =>
    IF SomePositiveObjective
    THEN WithinDiscountRange(presult.optimalDiscount)
    ELSE presult.optimalDiscount = Num(0)

\* C8 happens: a call with minDiscount > 0 has returned a discount other than
\* 0, some candidate having a positive objective value
C8_Witness ==
  /\ PoReturned /\ Gt(minDiscount, Num(0)) /\ SomePositiveObjective
  /\ presult.optimalDiscount # Num(0)

\* C9: the 50 candidates tested lie within 0.5 of [minPrice, maxPrice], the
\* first is the lower end rounded and the last the upper end rounded, and
\* they are tested in ascending order when minDiscount <= maxDiscount.
C9_CandidatesWithinRange ==
  /\ ppc \in {"regression", "campaign", "test", "return", "done", "thrown"} =>
       /\ Len(pricePoints) = 50
       /\ pricePoints[1] = MathRound(minPrice)
       /\ pricePoints[50] = MathRound(maxPrice)
  /\ ppc = "test" =>
       /\ Le(Sub(minPrice, <<1, 2>>), pricePoints[tested + 1])
       /\ Le(pricePoints[tested + 1], Add(maxPrice, <<1, 2>>))
       /\ (tested >= 1 /\ Le(minDiscount, maxDiscount))
            => Le(pricePoints[tested], pricePoints[tested + 1])
  /\ ppc \in {"return", "done"} => tested = 50

\* C9 happens: the last candidate is about to be tested, of a range whose two
\* ends are not whole numbers
C9_Witness ==
  /\ ppc = "test" /\ tested = 49
  /\ ~IsInt(minPrice) /\ ~IsInt(maxPrice)
  /\ pricePoints[1] # pricePoints[50]

\* C10: optimalPrice, expectedRevenue, expectedProfit, dailyRevenue,
\* dailyProfit, expectedQuantity.daily and expectedQuantity.total are all >= 0
\* for every call.  With goal sales or inventory and a cost above the price
\* selected, lines 211 and 213 yield a negative profit.
C10_FieldsNonNegative ==
  PoReturned =>
    /\ Ge(presult.optimalPrice, Num(0))
    /\ Ge(presult.expectedRevenue, Num(0))
    /\ Ge(presult.expectedProfit, Num(0))
    /\ Ge(presult.dailyRevenue, Num(0))
    /\ Ge(presult.dailyProfit, Num(0))
    /\ Ge(presult.expectedQuantity.daily, Num(0))
    /\ Ge(presult.expectedQuantity.total, Num(0))

\* the candidates have been tested, some or all of them
PoTesting == ppc \in {"test", "return", "done"}

\* maxObjectiveValue is the greatest of 0 and the objective values of the
\* candidates tested
GreatestSoFar ==
  /\ \A j \in 1..Len(objectiveValues) : ~Gt(objectiveValues[j], maxObjectiveValue)
  /\ \/ maxObjectiveValue = Num(0)
     \/ \E j \in 1..Len(objectiveValues) : objectiveValues[j] = maxObjectiveValue

\* the candidate of index k is the first to attain the greatest objective
\* value, a positive one
FirstGreatest(k) ==
  /\ objectiveValues[k] = maxObjectiveValue
  /\ Gt(objectiveValues[k], Num(0))
  /\ \A j \in 1..(k - 1) : objectiveValues[j] # objectiveValues[k]

\* C11: the price tracked is the candidate of strictly greatest objective
\* value among those tested, the first such (the lowest price) among equals;
\* a candidate replaces the best so far only with a strictly greater objective
\* value, the best so far being the current price with objective value 0
\* before any candidate is taken.
C11_StrictlyGreatestFirst ==
  PoTesting =>
    /\ GreatestSoFar
    /\ \A k \in 1..Len(objectiveValues) :
         FirstGreatest(k) => /\ optimalPrice = pricePoints[k]
                             /\ \A j \in (k + 1)..Len(objectiveValues) :
                                  objectiveValues[j] = objectiveValues[k]
                                    => Le(pricePoints[k], pricePoints[j])
    /\ ~SomePositiveObjective => optimalPrice = currentPrice /\ maxObjectiveValue = Num(0)
    /\ PoReturned /\ SomePositiveObjective
         => \E k \in 1..Len(objectiveValues) :
              FirstGreatest(k) /\ presult.optimalPrice = pricePoints[k]

\* C11 happens: a call has returned the lower of two candidates of different
\* prices that share the greatest objective value
C11_Witness ==
  /\ PoReturned
  /\ \E k \in 1..Len(objectiveValues) :
       /\ FirstGreatest(k)
       /\ presult.optimalPrice = pricePoints[k]
       /\ \E j \in (k + 1)..Len(objectiveValues) :
            /\ objectiveValues[j] = objectiveValues[k]
            /\ pricePoints[j] # pricePoints[k]

\* no candidate has been taken: the values of lines 115-118 stand
NothingTaken ==
  /\ optimalPrice = currentPrice
  /\ maxObjectiveValue = Num(0)
  /\ optimalDailyQuantity = Num(0)
  /\ optimalTotalQuantity = Num(0)

\* C12: where no candidate has an objective value greater than 0, no candidate
\* is taken, and the call returns the current price, rounded, with a discount
\* of 0; a candidate taken has an objective value greater than 0.
C12_FallbackToCurrentPrice ==
  /\ (PoTesting /\ ~SomePositiveObjective) => NothingTaken
  /\ (PoTesting /\ ~NothingTaken) => Gt(maxObjectiveValue, Num(0))
  /\ (PoReturned /\ ~SomePositiveObjective)
       => /\ presult.optimalPrice = MathRound(currentPrice)
          /\ presult.optimalDiscount = Num(0)

\* C12 happens: a call for profit at a cost that no candidate exceeds, whose
\* objective values are numbers and not all 0, has returned a current price
\* of 12.5 as 13
C12_Witness ==
  /\ PoReturned /\ goal = "profit" /\ ~SomePositiveObjective
  /\ \A k \in 1..Len(pricePoints) : Le(pricePoints[k], cost)
  /\ \E k \in 1..Len(objectiveValues) : Lt(objectiveValues[k], Num(0))
  /\ ~IsInt(currentPrice)
  /\ presult.optimalPrice = MathRound(currentPrice)
  /\ presult.optimalDiscount = Num(0)

\* C13: where no candidate has a positive objective value and the current
\* price is returned, expectedQuantity is the campaign quantity of the demand
\* model at the current price, the quantity expectedRevenue and expectedProfit
\* are computed from.  The code returns optimalTotalQuantity and
\* optimalDailyQuantity, which are still the 0 of lines 117-118, beside a
\* revenue computed from the quantity of lines 204-207.
C13_FallbackQuantitiesAtCurrentPrice ==
  (PoReturned /\ ~SomePositiveObjective)
    => /\ presult.expectedQuantity.total = TotalQuantityAt(currentPrice)
       /\ presult.expectedQuantity.daily = DailyQuantityOf(TotalQuantityAt(currentPrice))

\* C14: the campaignDays used and returned is endDate - startDate + 1 and at
\* least 1 for every call with a campaign period, and 1 without one, so that
\* no division by campaignDays is by zero or by a negative number.  Nothing
\* validates the period: one that ends the day before it starts has 0 days.
C14_CampaignDaysAtLeastOne ==
  PoTesting =>
    /\ campaignDays = (IF campaignPeriod.given
                       THEN campaignPeriod.endDate - campaignPeriod.startDate + 1
                       ELSE 1)
    /\ campaignDays >= 1
    /\ PoReturned => presult.campaignDays = campaignDays

----------------------------------------------------------------------------
(* Properties of repeated calls                                            *)

\* a second call of generateSalesForecast has returned
ReturnedAgain == FcReturned /\ calls = 2

\* C15 as stated: a second call with the same history and the same range
\* returns what the first returned, whatever else has changed.  Line 277
\* reads the clock: on the next day the points are those of other days.
C15_SameInputSameOutput ==
  (ReturnedAgain /\ historicalData = earlier.historicalData)
    => fresult = earlier.result

\* C15, amended: a second call with the same history and the same range, made
\* on the same day, returns what the first returned.
C15_SameInputSameDaySameOutput ==
  (ReturnedAgain /\ historicalData = earlier.historicalData /\ today = earlier.today)
    => fresult = earlier.result

\* C15 happens: a second call on the same day with the same history has
\* returned seven points
C15_Witness ==
  /\ ReturnedAgain /\ historicalData = earlier.historicalData /\ today = earlier.today
  /\ Len(fresult.forecastData) = 7
  /\ fresult = earlier.result

\* C16: no call changes the arrays passed to it: at every step of
\* generateSalesForecast the history, and at every step of optimizePrice (and
\* of calculatePriceElasticity within it) the observations, are the same
\* records in the same order as when they were passed, on the early returns
\* too and where the outlier filter repairs a value.
C16_InputsNotMutated ==
  /\ historicalData = atCall.historicalData
  /\ salesData = atCall.salesData

\* C16 happens: a call has returned seven points for a history passed out of
\* order, one of whose sales values the outlier filter has repaired
C16_Witness ==
  /\ FcReturned /\ Len(fresult.forecastData) = 7
  /\ sortedData # historicalData
  /\ ySales # rawSales
  /\ historicalData = atCall.historicalData

\* h and g hold the same records, each once, no two of the same timestamp
SameRecords(h, g) ==
  /\ Len(h) = Len(g)
  /\ {h[k] : k \in 1..Len(h)} = {g[k] : k \in 1..Len(g)}
  /\ \A j, k \in 1..Len(h) : h[j].timestamp = h[k].timestamp => j = k

\* C17: the result does not depend on the order of the history: a second call
\* made on the same day with the same records of distinct timestamps, in
\* whatever order, returns the points and the confidence of the first.
C17_OrderIndependent ==
  (ReturnedAgain /\ today = earlier.today
     /\ SameRecords(historicalData, earlier.historicalData))
    => /\ fresult.forecastData = earlier.result.forecastData
       /\ fresult.confidence = earlier.result.confidence

\* C17 happens: a second call with the records in another order, one of them
\* a day apart from the others, has returned the seven points of the first
C17_Witness ==
  /\ ReturnedAgain /\ today = earlier.today
  /\ SameRecords(historicalData, earlier.historicalData)
  /\ historicalData # earlier.historicalData
  /\ calculateDataConsistency(dates) # Num(1)
  /\ Len(fresult.forecastData) = 7
  /\ fresult = earlier.result

----------------------------------------------------------------------------
(* Properties of the points of generateSalesForecast                       *)

\* the history passes validation: 7 points or more, sales not all zero,
\* orders not all zero
PassesValidation ==
  historyGiven /\ Len(historicalData) >= 7 /\ ~AllZeroSales /\ ~AllZeroOrders

\* C18: for a history that passes validation the call returns 7, 14, 30, 90
\* or 180 points for the range 7d, 14d, 1month, 3months or 6months, and 30
\* for any other; the points are those of the days today, today + 1, ... in
\* that order, each with isForecast true.
C18_PointsPerRange ==
  (FcReturned /\ PassesValidation)
    => /\ Len(fresult.forecastData) =
            (IF range = "7d" THEN 7
             ELSE IF range = "14d" THEN 14
             ELSE IF range = "3months" THEN 90
             ELSE IF range = "6months" THEN 180
             ELSE 30)
       /\ \A k \in 1..Len(fresult.forecastData) :
            /\ fresult.forecastData[k].timestamp = today + k - 1
            /\ fresult.forecastData[k].isForecast = TRUE

\* C18 happens: a call with a range that is not recognised has returned the
\* points of 30 days
C18_Witness ==
  /\ FcReturned /\ PassesValidation
  /\ range \notin {"7d", "14d", "1month", "3months", "6months"}
  /\ Len(fresult.forecastData) = 30
  /\ fresult.forecastData[30].timestamp = today + 29

\* C19: for a history that passes validation, the sales and the orders of
\* every point returned are whole numbers, at least 0 and never NaN.  Where
\* the outlier filter repairs every value other than 0 to 0, the overall
\* average of line 142 is 0, every seasonality factor is 0 / 0, and
\* Math.max(0, Math.round(NaN)) is NaN.
C19_PointValuesWholeNonNegative ==
  (FcReturned /\ PassesValidation)
    => \A k \in 1..Len(fresult.forecastData) :
         /\ IsInt(fresult.forecastData[k].sales)
         /\ Ge(fresult.forecastData[k].sales, Num(0))
         /\ IsInt(fresult.forecastData[k].orders)
         /\ Ge(fresult.forecastData[k].orders, Num(0))

----------------------------------------------------------------------------
(* Properties of handleOutliers                                            *)

\* the series has been cleaned
Cleaned == fpc = "fit"

\* the value v of a series lies outside the bounds of lines 91-92
Outlying(series, v) ==
  /\ Len(series) >= 4
  /\ \/ Lt(v, QuartileBounds(SortNum(series)).lower)
     \/ Gt(v, QuartileBounds(SortNum(series)).upper)

\* cleaned has the length of series, and at each position the value of
\* series unless that value is outlying
SamePositions(series, cleaned) ==
  /\ Len(cleaned) = Len(series)
  /\ \A k \in 1..Len(series) : cleaned[k] = series[k] \/ Outlying(series, series[k])

\* C20: handleOutliers returns a series of the length of its input, each
\* value at its position (the repaired ones in place of the outlying ones),
\* for every input, the empty series and those of one value included.
C20_OutlierFilterKeepsLength ==
  Cleaned => SamePositions(rawSales, ySales) /\ SamePositions(rawOrders, yOrders)

\* C20 happens: a series has been cleaned with one of its values repaired
C20_Witness ==
  /\ Cleaned
  /\ Len(ySales) = Len(rawSales)
  /\ \E k \in 1..Len(rawSales) : ySales[k] # rawSales[k]

\* the quartile of a series of n values sorted in ascending order that its
\* index floor(n * quarters / 4), from 0, holds
QuartileOf(series, quarters) == SortNum(series)[((quarters * Len(series)) \div 4) + 1]

\* Q1 - 1.5 * IQR and Q3 + 1.5 * IQR
LowerFence(series) ==
  Sub(QuartileOf(series, 1),
      Mul(<<3, 2>>, Sub(QuartileOf(series, 3), QuartileOf(series, 1))))

UpperFence(series) ==
  Add(QuartileOf(series, 3),
      Mul(<<3, 2>>, Sub(QuartileOf(series, 3), QuartileOf(series, 1))))

\* v lies within the fences lo and hi
Inside(v, lo, hi) == Ge(v, lo) /\ Le(v, hi)

\* the indices, from 1, of the window [i - 3, i + 4) of the index i from 0,
\* whose values lie within the fences
InsideNear(series, k, lo, hi) ==
  {j \in 1..Len(series) : j >= k - 3 /\ j <= k + 3 /\ Inside(series[j], lo, hi)}

\* the value at position k of cleaned is the one C21 states, the fences of
\* the series being lo and hi
RepairedAt(series, cleaned, k, lo, hi) ==
  IF Inside(series[k], lo, hi) \/ InsideNear(series, k, lo, hi) = {}
  THEN cleaned[k] = series[k]
  ELSE Mul(cleaned[k], Num(Cardinality(InsideNear(series, k, lo, hi))))
         = Sum([j \in 1..Len(series) |->
                  IF j \in InsideNear(series, k, lo, hi) THEN series[j] ELSE Num(0)])

ExactlyRepaired(series, cleaned) ==
  IF Len(series) < 4 THEN cleaned = series
  ELSE /\ Len(cleaned) = Len(series)
       /\ \A k \in 1..Len(series) :
            RepairedAt(series, cleaned, k, LowerFence(series), UpperFence(series))

\* C21: handleOutliers returns a series of fewer than 4 values unchanged; of
\* a longer one, with Q1 and Q3 the values of the sorted series at the indices
\* floor(n * 0.25) and floor(n * 0.75), it leaves every value within
\* [Q1 - 1.5 * IQR, Q3 + 1.5 * IQR] as it is, and replaces every other by the
\* mean of the values within the bounds at the indices [i - 3, i + 4) of the
\* input, or leaves it as it is where there is no such value.
C21_OutliersRepairedExactly ==
  Cleaned => ExactlyRepaired(rawSales, ySales) /\ ExactlyRepaired(rawOrders, yOrders)

\* C21 happens: of a cleaned series one outlying value is kept, for want of a
\* value within the bounds in its window, and another is replaced
C21_Witness ==
  /\ Cleaned
  /\ \E k \in 1..Len(rawSales) : Outlying(rawSales, rawSales[k]) /\ ySales[k] = rawSales[k]
  /\ \E k \in 1..Len(rawSales) : ySales[k] # rawSales[k]

\* the seasonality score that line 349 hands to the overall confidence
seasonalityScore == calculateSeasonalityStrength(salesSeasonality, ordersSeasonality)

\* the cleaned sales or the cleaned orders have the average 0 of line 142
ZeroMean == Sum(ySales)[1] = 0 \/ Sum(yOrders)[1] = 0

\* C22: the seasonality score used in the overall confidence is a number of
\* [0.8, 1.0], and it is the fallback 0.8 where a cleaned series has the
\* average 0 and the factors are divisions by zero.
C22_SeasonalityScoreInRange ==
  fpc = "score" =>
    /\ ~seasonalityScore.isNaN
    /\ ScoreGe(seasonalityScore, <<4, 5>>)
    /\ ~ScoreGe(seasonalityScore, <<101, 100>>)
    /\ ZeroMean => ~ScoreGe(seasonalityScore, <<81, 100>>)

\* the mean of a series
MeanOf(y) == Div(Sum(y), Num(Len(y)))

\* R squared of the fitted line on the series, clamped to [0, 1]
ClampedRSquared(line, xs, y) ==
  MathMax(Num(0), MathMin(Num(1),
    Sub(Num(1), Div(Sum([k \in 1..Len(y) |-> Sq(Sub(y[k], Predict(line, xs[k])))]),
                    Sum([k \in 1..Len(y) |-> Sq(Sub(y[k], MeanOf(y)))])))))

\* the mean absolute error of the fitted line on the series
MeanAbsoluteError(line, xs, y) ==
  Div(Sum([k \in 1..Len(y) |-> MathAbs(Sub(y[k], Predict(line, xs[k])))]), Num(Len(y)))

\* round(R2 * 100 * 0.4 + min(1, n / 30) * 30 + max(0, 1 - MAE / mean) * 30)
WeightedConfidence(line, xs, y) ==
  MathRound(Add(Add(Mul(Mul(ClampedRSquared(line, xs, y), Num(100)), <<2, 5>>),
                    Mul(MathMin(Num(1), Div(Num(Len(xs)), Num(30))), Num(30))),
                Mul(MathMax(Num(0), Sub(Num(1), Div(MeanAbsoluteError(line, xs, y),
                                                    MeanOf(y)))),
                    Num(30))))

ConstantSeries(y) == \A k \in 1..Len(y) : y[k] = y[1]

ConfidenceAsStated(c, line, xs, y) ==
  /\ IsInt(c) /\ Ge(c, Num(0)) /\ Le(c, Num(100))
  /\ c = IF ConstantSeries(y) THEN Num(50) ELSE WeightedConfidence(line, xs, y)

\* C23: calculateConfidence is an integer of [0, 100]: 50 for a constant
\* series (SStot = 0), and otherwise round(R2 * 100 * 0.4 + min(1, n / 30) * 30
\* + max(0, 1 - MAE / mean) * 30) with R2 clamped to [0, 1].
C23_ConfidenceIsWeightedScore ==
  fpc = "score" =>
    /\ ConfidenceAsStated(calculateConfidence(salesRegression, x, ySales),
                          salesRegression, x, ySales)
    /\ ConfidenceAsStated(calculateConfidence(ordersRegression, x, yOrders),
                          ordersRegression, x, yOrders)

\* C23 happens: the confidence of a series that is not constant is scored by
\* the weighted formula, that of a constant one is 50
C23_Witness ==
  /\ fpc = "score"
  /\ ~ConstantSeries(ySales)
  /\ calculateConfidence(salesRegression, x, ySales) \notin {Num(0), Num(50), Num(100)}
  /\ ConstantSeries(yOrders)
  /\ calculateConfidence(ordersRegression, x, yOrders) = Num(50)

\* the history has 10 consecutive days, each with the sales s and the orders o
SteadyAt(s, o) ==
  /\ Len(historicalData) = 10
  /\ \A k \in 1..10 :
       /\ historicalData[k].timestamp = historicalData[1].timestamp + k - 1
       /\ historicalData[k].sales = s
       /\ historicalData[k].orders = o

\* C24: of a history of 10 consecutive days with the sales 100 and the orders
\* 10 on every day, every point returned, for every range, has the sales 100
\* and the orders 10, and its bounds are salesLower = salesUpper = 100 and
\* ordersLower = ordersUpper = 10.
C24_SteadyHistorySteadyForecast ==
  (FcReturned /\ SteadyAt(100, 10))
    => /\ Len(fresult.forecastData) = daysToForecast
       /\ \A k \in 1..Len(fresult.forecastData) :
            /\ fresult.forecastData[k].sales = Num(100)
            /\ fresult.forecastData[k].salesLower = Num(100)
            /\ fresult.forecastData[k].salesUpper = Num(100)
            /\ fresult.forecastData[k].orders = Num(10)
            /\ fresult.forecastData[k].ordersLower = Num(10)
            /\ fresult.forecastData[k].ordersUpper = Num(10)

\* C24 happens: the 180 points of the range 6months have been returned for
\* the steady history, the line fitted having the slope 0
C24_Witness ==
  /\ FcReturned /\ SteadyAt(100, 10)
  /\ range = "6months"
  /\ Len(fresult.forecastData) = 180
  /\ salesRegression = [slope |-> Num(0), intercept |-> Num(100)]
  /\ fresult.forecastData[180].sales = Num(100)

\* m(d): 1.3 on Friday and Saturday, 1.1 on Sunday, 0.9 on every other day
DayMultiplier(d) ==
  CASE getDay(d) \in {5, 6} -> <<13, 10>>
    [] getDay(d) = 0 -> <<11, 10>>
    [] OTHER -> <<9, 10>>

\* max(0, round(predicted demand)) at a price
StatedBaseQuantity(price) == MathMax(Num(0), MathRound(Predict(regression, price)))

\* the total campaign quantity C25 states for a price
StatedTotalQuantity(price) ==
  IF ~campaignPeriod.given THEN StatedBaseQuantity(price)
  ELSE MathRound(Sum([k \in 1..(campaignPeriod.endDate - campaignPeriod.startDate + 1) |->
                        Mul(StatedBaseQuantity(price),
                            DayMultiplier(campaignPeriod.startDate + k - 1))]))

\* a candidate has been tested
Tested == ppc \in {"test", "return"} /\ tested >= 1

\* C25: the total campaign quantity of each candidate price is round(sum over
\* the campaign days d of baseQuantity * m(d)), baseQuantity being max(0,
\* round(predicted demand)), and baseQuantity itself where there is no campaign
\* window; the objective value is (price - cost) * total for the goal profit
\* and price * total for the goal sales.
C25_TotalQuantityAndObjective ==
  Tested =>
    /\ goal = "profit" =>
         objectiveValues[tested]
           = Mul(Sub(pricePoints[tested], cost), StatedTotalQuantity(pricePoints[tested]))
    /\ goal = "sales" =>
         objectiveValues[tested]
           = Mul(pricePoints[tested], StatedTotalQuantity(pricePoints[tested]))
    /\ optimalPrice = pricePoints[tested] /\ maxObjectiveValue = objectiveValues[tested]
         /\ Gt(maxObjectiveValue, Num(0))
         => optimalTotalQuantity = StatedTotalQuantity(pricePoints[tested])

\* C25 happens: a candidate is tested for a campaign of the three days Friday
\* to Sunday, its total quantity not being three times its base quantity
C25_Witness ==
  /\ Tested
  /\ goal = "profit"
  /\ campaignPeriod.given
  /\ campaignPeriod.endDate - campaignPeriod.startDate = 2
  /\ optimalPrice = pricePoints[tested]
  /\ Gt(optimalTotalQuantity, Num(0))
  /\ optimalTotalQuantity = StatedTotalQuantity(pricePoints[tested])
  /\ optimalTotalQuantity # Mul(Num(3), StatedBaseQuantity(pricePoints[tested]))

\* calculatePriceElasticity has returned
Estimated == ppc \in {"pricePoints", "regression", "campaign", "test", "return", "done", "thrown"}

\* the interpretation of the fixed buckets: below 0.5, below 1, below 2, other
BucketOf(value) ==
  IF Lt(value, <<1, 2>>) THEN "Inelastic - Demand is not very sensitive to price changes"
  ELSE IF Lt(value, Num(1))
  THEN "Moderately elastic - Demand shows some response to price changes"
  ELSE IF Lt(value, Num(2)) THEN "Elastic - Demand is sensitive to price changes"
  ELSE "Highly elastic - Demand is very sensitive to price changes"

\* C26: the interpretation of the elasticity follows the fixed buckets; the
\* estimate of 2 observations or more is a magnitude, at least 0; the default
\* of fewer than 2 observations is interpreted as elastic.  Line 43 returns
\* -1, which is below 0.5: the default is interpreted as inelastic.
C26_ElasticityBuckets ==
  Estimated =>
    /\ interpretElasticity(elasticity) = BucketOf(elasticity)
    /\ Len(salesData) >= 2 => Ge(elasticity, Num(0))
    /\ Len(salesData) < 2 =>
         interpretElasticity(elasticity) = "Elastic - Demand is sensitive to price changes"

\* round(100 * n / 60)
QualityCap(n) == MathRound(Div(Num(100 * n), Num(60)))

\* C27: for a history of n points that passes validation, 7 <= n < 60, the
\* confidence returned is at most round(100 * n / 60); that of 7 points is at
\* most 12, and lower than the 42 returned for 6 points.  Where a cleaned
\* series has the average 0 the seasonality score is NaN and so is the
\* confidence returned, which is neither.
C27_ConfidenceCappedByQuality ==
  (FcReturned /\ PassesValidation /\ Len(historicalData) < 60)
    => /\ Le(fresult.confidence, QualityCap(Len(historicalData)))
       /\ Len(historicalData) = 7 =>
            /\ Le(fresult.confidence, Num(12))
            /\ Lt(fresult.confidence, Num(InsufficientConfidence(6)))

\* the call of the caller c ends in this step, having had a failed response
EndsFailed(c) ==
  /\ tcall[c].pc \in {"response", "markError"}
  /\ tcall'[c].pc = "thrown"
  /\ tcall'[c].response \in {"apiError", "httpError", "notJson"}

\* the call of the caller c reads the row in this step
ReadsRow(c) == tcall[c].pc = "select" /\ tcall'[c].pc # "select"

\* the call that reads the row in error state throws, before a refresh of
\* the token or a request to TikTok, and leaves the row as it is
ErrorStateRefuses ==
  \A c \in Callers :
    (connection.present /\ connection.status = "error" /\ ReadsRow(c))
      => /\ tcall'[c].pc = "thrown"
         /\ tcall'[c].thrown = "TikTok connection is in error state"
         /\ ~tcall'[c].refreshed /\ ~tcall'[c].requested
         /\ connection' = connection

\* C28: once a call of callTikTokApi has a failed response (HTTP not ok, or a
\* code other than 0) the status of the row of the user is 'error'; every
\* call that reads the row in that state throws 'TikTok connection is in
\* error state' before a refresh of the token or a request to TikTok, and
\* leaves the row as it is; the state is left only by a step outside
\* callTikTokApi.  A response that is not ok with a body that is not JSON
\* ends the call at response.json(), before the update of the status.
C28_ErrorStateAbsorbing ==
  [][/\ \A c \in Callers :
          (connection.present /\ EndsFailed(c)) => connection'.status = "error"
     /\ ErrorStateRefuses
     /\ (connection.present /\ connection.status = "error" /\ connection'.status # "error")
          => tcall' = tcall]_vars

\* the request carries the signature of its own timestamp and body under the
\* secret configured
SignatureVerified ==
  /\ request.signature.given
  /\ webhookSecret # ""
  /\ request.signature.wellFormed
  /\ request.signature.v1
       = Hmac(webhookSecret, PayloadOf(request.signature.t, request.rawBody))

\* the request is refused: answered with 400, without a call of Stripe and
\* without an upsert or update of subscriptions
Refused == answered = 400 /\ ~retrieved /\ ~written

\* C29, as stated: a request with no stripe-signature header, with no secret
\* configured, or with a signature that is not the HMAC-SHA256 of
\* '<timestamp>.<raw body>', is answered with 400 and causes no write to
\* subscriptions and no call of Stripe.  A preflight (OPTIONS) is answered
\* with 200 before the header is read.
C29_UnverifiedAnswered400 ==
  /\ (retrieved \/ written) => SignatureVerified
  /\ (wpc = "answered" /\ ~SignatureVerified) => Refused

\* C29, amended: Stripe is called and subscriptions is written only for a
\* request whose signature is verified; a request other than a preflight
\* that has no stripe-signature header, no secret configured, or a signature
\* that is not the HMAC-SHA256 of '<timestamp>.<raw body>' is answered with
\* 400, without a write to subscriptions and without a call of Stripe; a
\* preflight is answered with 200, without either.
C29_WritesOnlyWhenVerified ==
  /\ (retrieved \/ written) => (SignatureVerified /\ request.method # "OPTIONS")
  /\ (wpc = "answered" /\ ~SignatureVerified /\ request.method # "OPTIONS") => Refused
  /\ (wpc = "answered" /\ request.method = "OPTIONS")
       => (answered = 200 /\ ~retrieved /\ ~written)

\* C29 happens: a POST with the signature of another body under the secret
\* configured has been answered with 400, the row being as it was
C29_Witness ==
  /\ wpc = "answered"
  /\ request.method = "POST"
  /\ webhookSecret = "whsec"
  /\ request.signature.wellFormed
  /\ request.rawBody.type = "customer.subscription.deleted"
  /\ request.signature.v1[1] = "whsec"
  /\ request.signature.v1[2][2] # request.rawBody
  /\ subscriptions = "active"
  /\ Refused

\* C30: after any interleaving of the requests of one user for one platform
\* on one UTC day, platform_metrics holds at most one row of that user,
\* platform and day.  Two requests that both look before either inserts
\* both find no row, and both insert.
C30_OneRowPerDay == metricsRows <= 1

====
